---- MODULE Spec2Model ----
(***************************************************************************)
(* A model of the hillnote MCP server's two state-bearing subsystems:      *)
(*   - the positional editor of src/src/tools/content.js                   *)
(*     (insertContent, deleteContent, replaceContent), and                 *)
(*   - the file-backed tabular store of src/unnamed/part_003               *)
(*     (createDatabase, readDatabase, addRows, updateRows, deleteRows,     *)
(*     addColumn, updateColumn, deleteColumn, createView).                 *)
(* Text is a sequence of one-character strings; offsets are 0-based as in  *)
(* JavaScript, sequence indices 1-based as in TLA+.                        *)
(***************************************************************************)
EXTENDS Integers, Sequences, FiniteSets, TLC

VARIABLES
    doc,      \* content of the document file (docPath)
    tmp,      \* content of the temp file (tempPath): None or Some(text)
    pc,       \* position of the running edit handler
    cur,      \* the edit in flight: its inputs, the text read, the text to write
    last,     \* the completed edit: inputs, text read, result
    config,   \* database.json of the database folder: None | Some(config)
    files,    \* the row files of the database folder: file name -> file
    dbLast,   \* the last database call and its result
    dbOps,    \* number of database calls made
    inflight, \* the edit requests the server is handling: request -> its handler
    temps     \* the temp files of those handlers: time stamp -> content

vars == <<doc, tmp, pc, cur, last, config, files, dbLast, dbOps, inflight, temps>>
serverVars == <<inflight, temps>>
editVars == <<doc, tmp, pc, cur, last>>
dbVars == <<config, files, dbLast, dbOps>>

----------------------------------------------------------------------------
(* Optional values (null / undefined in the source).                       *)

None == <<>>
Some(x) == <<x>>
IsSome(o) == o # <<>>
Get(o) == o[1]

Min(a, b) == IF a <= b THEN a ELSE b
Max(a, b) == IF a >= b THEN a ELSE b

----------------------------------------------------------------------------
(* JavaScript string primitives.                                           *)

\* String.prototype.slice(a, b) for 0 <= a, b: characters [a, b).
Slice(s, a, b) ==
    LET lo == Min(a, Len(s))
        hi == Min(b, Len(s))
    IN  IF lo >= hi THEN <<>> ELSE SubSeq(s, lo + 1, hi)

\* s.slice(a): characters from a to the end.
SliceFrom(s, a) == Slice(s, a, Len(s))

\* s.startsWith(needle, at)
MatchesAt(s, needle, at) ==
    /\ at + Len(needle) <= Len(s)
    /\ \A k \in 1..Len(needle) : s[at + k] = needle[k]

\* String.prototype.indexOf(needle, from): the least offset >= from at which
\* needle occurs, -1 when there is none.  The empty needle occurs everywhere,
\* so indexOf("", from) is min(from, length).
IndexOf(s, needle, from) ==
    LET hits == {i \in from..(Len(s) - Len(needle)) : MatchesAt(s, needle, i)}
    IN  IF Len(needle) = 0 THEN Min(from, Len(s))
        ELSE IF hits = {} THEN -1
        ELSE CHOOSE i \in hits : \A j \in hits : i <= j

Includes(s, needle) == IndexOf(s, needle, 0) # -1

\* s.split(sep) for a one-character separator: always at least one piece.
RECURSIVE Split(_, _)
Split(s, sep) ==
    LET i == IndexOf(s, <<sep>>, 0)
    IN  IF i = -1 THEN <<s>>
        ELSE <<Slice(s, 0, i)>> \o Split(SliceFrom(s, i + 1), sep)

\* lines.join(sep)
RECURSIVE Join(_, _)
Join(parts, sep) ==
    IF Len(parts) = 0 THEN <<>>
    ELSE IF Len(parts) = 1 THEN parts[1]
    ELSE parts[1] \o <<sep>> \o Join(Tail(parts), sep)

\* The white space String.prototype.trim removes (the members that occur in
\* the texts of this model).
WhiteSpace == {" ", "\n", "\t"}

RECURSIVE TrimStart(_)
TrimStart(s) ==
    IF Len(s) > 0 /\ s[1] \in WhiteSpace THEN TrimStart(Tail(s)) ELSE s

RECURSIVE TrimEnd(_)
TrimEnd(s) ==
    IF Len(s) > 0 /\ s[Len(s)] \in WhiteSpace
    THEN TrimEnd(SubSeq(s, 1, Len(s) - 1)) ELSE s

Trim(s) == TrimEnd(TrimStart(s))

\* The offsets of every occurrence found by the source's scanning loop
\*   while (searchPos < content.length) { index = indexOf(..); ..; searchPos = index + 1 }
\* stopping once `limit` occurrences are collected (limit = -1: no limit).
RECURSIVE ScanFrom(_, _, _, _)
ScanFrom(s, needle, searchPos, limit) ==
    IF searchPos >= Len(s) \/ limit = 0 THEN <<>>
    ELSE LET index == IndexOf(s, needle, searchPos)
         IN  IF index = -1 THEN <<>>
             ELSE <<index>> \o ScanFrom(s, needle, index + 1,
                                        IF limit > 0 THEN limit - 1 ELSE limit)

----------------------------------------------------------------------------
(* insertContent (content.js 10-252): the handler as a function of the     *)
(* text read from the document file and the call's arguments.  A position  *)
(* is [t |-> "start"], [t |-> "end"], [t |-> "null"] (null or undefined)   *)
(* or [t |-> "num", n |-> k]; expectedLineBefore is None or Some(line).    *)
(* The result keeps the fields that decide the outcome; the formatted      *)
(* previews and line statistics of the success result are not modelled.    *)

\* The literal the source compares with when the insertion point is on the
\* first line: '(beginning of document)'.
BeginningOfDocument ==
    <<"(", "b", "e", "g", "i", "n", "n", "i", "n", "g", " ", "o", "f", " ", "d", "o", "c", "u", "m", "e", "n", "t", ")">>

Error(code) == [kind |-> "error", code |-> code]

\* Lines 23-32: position validation before any I/O.
PositionValid(position) ==
    position.t = "num" => position.n >= 0

\* A clamp from below only: Math.max(0, position).
ClampBelow(n, content) == Max(0, n)

\* Line 68: Math.min(Math.max(0, position), content.length)
ClampPosition(n, content) == Min(Max(0, n), Len(content))

\* Lines 59-65, 68: the character offset of the insertion.
ActualPosition(content, position) ==
    CASE position.t = "start" -> 0
      [] position.t \in {"end", "null"} -> Len(content)
      [] position.t = "num" -> ClampPosition(position.n, content)

\* Lines 71-79: the first line i with charCount + lines[i].length >= actualPosition,
\* charCount being the offset of line i's first character; lines.length if none.
RECURSIVE LineWalk(_, _, _, _)
LineWalk(lines, i, charCount, actualPosition) ==
    IF i >= Len(lines) THEN Len(lines)
    ELSE IF charCount + Len(lines[i + 1]) >= actualPosition THEN i
    ELSE LineWalk(lines, i + 1, charCount + Len(lines[i + 1]) + 1, actualPosition)

\* Lines 59-80: the (0-based) line index of the insertion.
InsertionLine(content, position) ==
    LET lines == Split(content, "\n")
    IN  CASE position.t = "start" -> 0
          [] position.t \in {"end", "null"} -> Len(lines)
          [] position.t = "num" ->
                LineWalk(lines, 0, 0, ActualPosition(content, position))

\* Lines 85-92: the line the handler takes to precede the insertion point.
LineBeforeInsertion(content, position) ==
    LET lines == Split(content, "\n")
        insertionLine == InsertionLine(content, position)
    IN  IF insertionLine > 0 /\ insertionLine <= Len(lines)
        THEN lines[insertionLine]
        ELSE IF insertionLine = 0 THEN BeginningOfDocument
        ELSE IF insertionLine >= Len(lines) THEN lines[Len(lines)] ELSE <<>>

\* Lines 97-107: every line equal to expectedLineBefore, with its 1-based
\* number and the offset just after it.
LineOccurrences(content, expected) ==
    LET lines == Split(content, "\n")
        idx == {i \in 1..Len(lines) : lines[i] = expected}
        F[i \in 0..Len(lines)] ==
            IF i = 0 THEN <<>>
            ELSE IF i \in idx
                 THEN F[i - 1] \o <<[lineNumber |-> i,
                                     afterPosition |-> Len(Join(SubSeq(lines, 1, i), "\n"))]>>
                 ELSE F[i - 1]
    IN  F[Len(lines)]

\* Lines 128-135: the text to write.
InsertNewContent(content, position, text) ==
    CASE position.t = "start" -> text \o <<"\n", "\n">> \o content
      [] position.t \in {"end", "null"} -> content \o <<"\n", "\n">> \o text
      [] position.t = "num" ->
            LET actualPosition == ActualPosition(content, position)
            IN  Slice(content, 0, actualPosition) \o text \o SliceFrom(content, actualPosition)

\* Lines 83-95: whether the optimistic check lets the insertion proceed.
ExpectedLineMatches(content, position, expectedLineBefore) ==
    IsSome(expectedLineBefore) =>
        LineBeforeInsertion(content, position) = Get(expectedLineBefore)

\* The handler up to (not including) the write of lines 197-208: an error, a
\* soft failure, or the success result with the text to persist.
insertContent(content, position, text, expectedLineBefore) ==
    IF ~PositionValid(position) THEN Error("InvalidParams")
    ELSE IF ~ExpectedLineMatches(content, position, expectedLineBefore)
    THEN LET occurrences == LineOccurrences(content, Get(expectedLineBefore))
         IN  [kind |-> "fail",
              error |-> "Position validation failed",
              expected |-> Get(expectedLineBefore),
              actual |-> LineBeforeInsertion(content, position),
              currentPosition |-> [line |-> InsertionLine(content, position) + 1,
                                   character |-> ActualPosition(content, position)],
              suggestedPositions |->
                  IF Len(occurrences) > 0 THEN Some(occurrences) ELSE None]
    ELSE [kind |-> "ok",
          newContent |-> InsertNewContent(content, position, text),
          insertion |-> [position |-> IF position.t = "num"
                                      THEN Some(ActualPosition(content, position))
                                      ELSE None,
                         lineNumber |-> InsertionLine(content, position) + 1,
                         textLength |-> Len(text)]]


----------------------------------------------------------------------------
(* deleteContent (content.js 257-362).                                     *)

\* Line 283: the range check; its failure is a plain Error, which the
\* handler's catch (lines 354-360) wraps as InternalError.
RangeValid(content, startPos, endPos) ==
    ~(startPos < 0 \/ endPos > Len(content) \/ startPos >= endPos)

\* A comparison of the texts as they are, untrimmed.
ExpectedContentIdentical(content, startPos, endPos, expectedContent) ==
    IsSome(expectedContent) =>
        Get(expectedContent) = Slice(content, startPos, endPos)

\* Lines 291-296: the trimmed comparison.
ExpectedContentMatches(content, startPos, endPos, expectedContent) ==
    IsSome(expectedContent) =>
        Trim(Get(expectedContent)) = Trim(Slice(content, startPos, endPos))

\* Lines 298-312: every verbatim occurrence of expectedContent.
ContentOccurrences(content, expected) ==
    LET at == ScanFrom(content, expected, 0, -1)
    IN  [k \in 1..Len(at) |-> [startPos |-> at[k], endPos |-> at[k] + Len(expected)]]

\* Line 332
DeleteNewContent(content, startPos, endPos) ==
    Slice(content, 0, startPos) \o SliceFrom(content, endPos)

deleteContent(content, startPos, endPos, expectedContent) ==
    IF ~RangeValid(content, startPos, endPos) THEN Error("InternalError")
    ELSE IF ~ExpectedContentMatches(content, startPos, endPos, expectedContent)
    THEN LET occurrences == ContentOccurrences(content, Get(expectedContent))
         IN  [kind |-> "fail",
              error |-> "Content mismatch",
              actualAtPosition |-> [content |-> Slice(content, startPos, endPos),
                                    startPos |-> startPos, endPos |-> endPos],
              suggestedPositions |->
                  IF Len(occurrences) > 0 THEN Some(occurrences) ELSE None]
    ELSE [kind |-> "ok",
          newContent |-> DeleteNewContent(content, startPos, endPos),
          deletedLength |-> endPos - startPos]

----------------------------------------------------------------------------
(* replaceContent (content.js 367-557).                                    *)

PartialSearchLength == 50
SuggestionLimit == 3
KeyPhraseLimit == 3
KeyPhraseContext == 200

Upper == {"A", "B", "C", "D", "E", "F", "G", "H", "I", "J", "K", "L", "M", "N", "O", "P", "Q", "R", "S", "T", "U", "V", "W", "X", "Y", "Z"}
Lower == {"a", "b", "c", "d", "e", "f", "g", "h", "i", "j", "k", "l", "m", "n", "o", "p", "q", "r", "s", "t", "u", "v", "w", "x", "y", "z"}
Digit == {"0", "1", "2", "3", "4", "5", "6", "7", "8", "9"}

\* The character at 0-based offset i, "" past the end.
At(s, i) == IF i >= 0 /\ i < Len(s) THEN s[i + 1] ELSE ""

\* The end of the longest run of characters of class `cls` starting at offset i.
RECURSIVE RunEnd(_, _, _)
RunEnd(s, i, cls) == IF At(s, i) \in cls THEN RunEnd(s, i + 1, cls) ELSE i

\* The offset of the first "\n" at or after i, the length if there is none.
RECURSIVE LineEnd(_, _)
LineEnd(s, i) == IF i >= Len(s) \/ s[i + 1] = "\n" THEN Min(i, Len(s)) ELSE LineEnd(s, i + 1)

\* /##\s+[^\n]+/ at offset i: the end of the match, -1 if none.  \s+ is greedy
\* and gives characters back until a character other than "\n" follows it.
HeadingEnd(s, i) ==
    IF ~(At(s, i) = "#" /\ At(s, i + 1) = "#") THEN -1
    ELSE LET w == RunEnd(s, i + 2, WhiteSpace)
             ks == {k \in (i + 3)..w : k < Len(s) /\ At(s, k) # "\n"}
         IN  IF ks = {} THEN -1
             ELSE LineEnd(s, CHOOSE k \in ks : \A j \in ks : j <= k)

\* /Fact \d+:/ at offset i.
FactEnd(s, i) ==
    IF ~MatchesAt(s, <<"F", "a", "c", "t", " ">>, i) THEN -1
    ELSE LET d == RunEnd(s, i + 5, Digit)
         IN  IF d > i + 5 /\ At(s, d) = ":" THEN d + 1 ELSE -1

\* /[A-Z][a-z]+ [A-Z][a-z]+/ at offset i.
TwoWordsEnd(s, i) ==
    IF At(s, i) \notin Upper THEN -1
    ELSE LET a == RunEnd(s, i + 1, Lower)
         IN  IF ~(a > i + 1 /\ At(s, a) = " " /\ At(s, a + 1) \in Upper) THEN -1
             ELSE LET b == RunEnd(s, a + 2, Lower)
                  IN  IF b > a + 2 THEN b ELSE -1

\* The alternation of line 425 at offset i: the first alternative that matches.
KeyPhraseEnd(s, i) ==
    IF HeadingEnd(s, i) # -1 THEN HeadingEnd(s, i)
    ELSE IF FactEnd(s, i) # -1 THEN FactEnd(s, i)
    ELSE TwoWordsEnd(s, i)

\* searchText.match(/.../g) || []: the matches, leftmost first, not overlapping.
RECURSIVE KeyPhrasesFrom(_, _)
KeyPhrasesFrom(s, i) ==
    IF i >= Len(s) THEN <<>>
    ELSE LET e == KeyPhraseEnd(s, i)
         IN  IF e = -1 THEN KeyPhrasesFrom(s, i + 1)
             ELSE <<Slice(s, i, e)>> \o KeyPhrasesFrom(s, e)

KeyPhrases(searchText) == KeyPhrasesFrom(searchText, 0)

\* Lines 403-420: matches of the first 50 characters of searchText.
PartialSuggestions(content, searchText) ==
    LET partialSearch == Slice(searchText, 0, Min(PartialSearchLength, Len(searchText)))
        at == ScanFrom(content, partialSearch, 0, SuggestionLimit)
    IN  [k \in 1..Len(at) |->
            [type |-> "partial", startPos |-> at[k],
             endPos |-> Min(at[k] + Len(searchText), Len(content))]]

\* Lines 423-439: the first occurrence of each of the first three key phrases,
\* looked for only when the partial search found nothing.
RECURSIVE PhraseSuggestions(_, _)
PhraseSuggestions(content, phrases) ==
    IF Len(phrases) = 0 THEN <<>>
    ELSE LET phraseIndex == IndexOf(content, Head(phrases), 0)
             rest == PhraseSuggestions(content, Tail(phrases))
         IN  IF phraseIndex # -1
             THEN <<[type |-> "keyPhrase", startPos |-> phraseIndex,
                     endPos |-> Min(phraseIndex + KeyPhraseContext, Len(content))]>> \o rest
             ELSE rest

KeyPhraseSuggestions(content, searchText, found) ==
    IF Len(found) = 0
    THEN PhraseSuggestions(content, Slice(KeyPhrases(searchText), 0, KeyPhraseLimit))
    ELSE <<>>

\* Lines 442-456: when searchText has a line break, the first occurrence of its
\* first line that is not blank.  With no such line searchLines[0] is
\* undefined, and indexOf(undefined) looks for the text "undefined".
RECURSIVE NonBlank(_)
NonBlank(lines) ==
    IF Len(lines) = 0 THEN <<>>
    ELSE IF Len(Trim(Head(lines))) > 0 THEN <<Head(lines)>> \o NonBlank(Tail(lines))
    ELSE NonBlank(Tail(lines))

FirstLineSuggestions(content, searchText, found) ==
    IF ~Includes(searchText, <<"\n">>) THEN <<>>
    ELSE LET searchLines == NonBlank(Split(searchText, "\n"))
             firstLine == IF Len(searchLines) > 0 THEN searchLines[1]
                          ELSE <<"u", "n", "d", "e", "f", "i", "n", "e", "d">>
             lineIndex == IndexOf(content, firstLine, 0)
         IN  IF lineIndex # -1
             THEN <<[type |-> "firstLine", startPos |-> lineIndex,
                     endPos |-> Min(lineIndex + Len(searchText), Len(content))]>>
             ELSE <<>>

\* Lines 401-456: the suggestions of a search that found nothing.
Suggestions(content, searchText) ==
    LET a == PartialSuggestions(content, searchText)
        b == a \o KeyPhraseSuggestions(content, searchText, a)
    IN  b \o FirstLineSuggestions(content, searchText, b)

\* The grave accent (U+0060), which a TLA+ string cannot hold, as a character.
GraveAccent == "GRAVE"

\* GetSubstitution of String.prototype.replace / replaceAll for a string
\* pattern (no captures): in the replacement, "$$" stands for "$", "$&" for the
\* matched text, "$" and a grave accent for the text before the match and "$"
\* and an apostrophe for the text after it; every other character, a lone "$"
\* included, stands for itself.
RECURSIVE Substitution(_, _, _, _)
Substitution(replaceText, matched, before, after) ==
    IF Len(replaceText) = 0 THEN <<>>
    ELSE IF replaceText[1] = "$" /\ Len(replaceText) >= 2
              /\ replaceText[2] \in {"$", "&", GraveAccent, "'"}
    THEN (CASE replaceText[2] = "$" -> <<"$">>
            [] replaceText[2] = "&" -> matched
            [] replaceText[2] = GraveAccent -> before
            [] replaceText[2] = "'" -> after)
         \o Substitution(SliceFrom(replaceText, 2), matched, before, after)
    ELSE <<replaceText[1]>> \o Substitution(Tail(replaceText), matched, before, after)

\* The replacement put in place of the match at offset `at` of content.
Replacement(content, searchText, replaceText, at) ==
    Substitution(replaceText, searchText, Slice(content, 0, at),
                 SliceFrom(content, at + Len(searchText)))

\* content.replace(searchText, replaceText) for strings (line 499).
ReplaceFirst(content, searchText, replaceText) ==
    LET at == IndexOf(content, searchText, 0)
    IN  IF at = -1 THEN content
        ELSE Slice(content, 0, at) \o Replacement(content, searchText, replaceText, at)
             \o SliceFrom(content, at + Len(searchText))

\* content.replaceAll(searchText, replaceText) for strings (line 496): the
\* matches are found left to right, each search resuming after the previous
\* match, so they do not overlap; searchText is not empty here.
RECURSIVE ReplaceAllFrom(_, _, _, _)
ReplaceAllFrom(content, searchText, replaceText, from) ==
    LET at == IndexOf(content, searchText, from)
    IN  IF at = -1 THEN SliceFrom(content, from)
        ELSE Slice(content, from, at) \o Replacement(content, searchText, replaceText, at)
             \o ReplaceAllFrom(content, searchText, replaceText, at + Len(searchText))

ReplaceAll(content, searchText, replaceText) ==
    ReplaceAllFrom(content, searchText, replaceText, 0)

\* Lines 491-501
ReplaceNewContent(content, searchText, replaceText, all) ==
    IF all THEN ReplaceAll(content, searchText, replaceText)
    ELSE ReplaceFirst(content, searchText, replaceText)

\* Line 504: the replacement changed nothing.
NoChangesMade(newContent, content) == newContent = content

\* Lines 475-489: the occurrences the handler reports, found by a scan that
\* resumes one character after each hit.
ReplaceOccurrences(content, searchText) ==
    LET at == ScanFrom(content, searchText, 0, -1)
    IN  [k \in 1..Len(at) |-> [startPos |-> at[k], endPos |-> at[k] + Len(searchText)]]

replaceContent(content, searchText, replaceText, all) ==
    IF Len(searchText) = 0 THEN Error("InvalidParams")
    ELSE IF ~Includes(content, searchText)
    THEN LET suggestions == Suggestions(content, searchText)
         IN  [kind |-> "fail",
              error |-> "Content not found",
              suggestions |-> IF Len(suggestions) > 0 THEN Some(suggestions) ELSE None]
    ELSE LET occurrences == ReplaceOccurrences(content, searchText)
             newContent == ReplaceNewContent(content, searchText, replaceText, all)
             replacedCount == IF all THEN Len(occurrences) ELSE 1
         IN  IF NoChangesMade(newContent, content)
             THEN [kind |-> "fail", error |-> "No changes made"]
             ELSE [kind |-> "ok",
                   newContent |-> newContent,
                   occurrencesFound |-> Len(occurrences),
                   occurrencesReplaced |-> replacedCount,
                   positions |-> Slice(occurrences, 0, replacedCount),
                   documentLengthChange |-> Len(newContent) - Len(content)]


----------------------------------------------------------------------------
(* The documents and arguments the edit handlers are run on.               *)

MaxPos == 8         \* numeric positions run over -1..MaxPos
FarOffset == 1000   \* and over Len(doc) + FarOffset, an offset far past the end
LongRun == 52       \* length of the document made of one repeated character

Rep(c, n) == [i \in 1..n |-> c]

InitDocs ==
    { <<"A", "\n", "B", "\n", "C">>,
      <<"h", "e", "l", "l", "o", " ", "w", "o", "r", "l", "d">>,
      <<"a", "-", "a", "-", "a">>,
      <<"a", "a", "a">>,
      <<>>,
      <<"A", "b", " ", "C", "d">>,
      <<"A", "b", " ", "C", "d", " ", "E", "f", " ", "G", "h", " ", "I", "j", " ", "K", "l">>,
      <<"a", "$", "$", "b">>,
      Rep("x", LongRun) }

Positions(content) == (-1..MaxPos) \cup {Len(content) + FarOffset}

InsertPositions(content) ==
    {[t |-> "start"], [t |-> "end"], [t |-> "null"]}
        \cup {[t |-> "num", n |-> k] : k \in Positions(content)}

InsertTexts == {<<"x">>, <<"B", "\n">>}

\* No expected line, each line of the document, a line it lacks, the literal
\* of the first-line case.
ExpectedLines(content) ==
    LET lines == Split(content, "\n")
    IN  {None} \cup {Some(lines[i]) : i \in 1..Len(lines)}
               \cup {Some(<<"Z">>), Some(BeginningOfDocument)}

\* No expected content, the addressed text itself, the same within white
\* space, one character of it, a text the documents lack.
ExpectedContents(content, startPos, endPos) ==
    LET sl == Slice(content, Max(startPos, 0), Max(endPos, 0))
    IN  {None, Some(sl), Some(<<" ">> \o sl \o <<"\n">>), Some(Slice(sl, 0, 1)),
         Some(<<"w", "r", "o", "n", "g">>)}

\* Search texts: short ones that occur, overlap or are absent, the empty one,
\* several lines with key phrases, and texts longer than 50 characters.
SearchTexts ==
    { <<>>, <<"a">>, <<"a", "a">>, <<"o">>, <<"B">>, <<"q">>, <<"\n">>, <<"$", "$">>,
      <<"A", "b", " ", "C", "d", "\n", "z">>,
      <<"z", " ", "A", "b", " ", "C", "d", " ", "E", "f", " ", "G", "h", " ",
        "I", "j", " ", "K", "l", "\n">>,
      <<"A", "b", " ", "C", "d", "\n", "E", "f", " ", "G", "h", "\n",
        "I", "j", " ", "K", "l", "\n", "M", "n", " ", "O", "p">>,
      Rep("x", PartialSearchLength) \o <<"y">>,
      Rep("x", PartialSearchLength) \o <<"\n", "y">> }

ReplaceTexts(searchText) ==
    { <<>>, <<"b">>, <<"$", "$">>, <<"$", "&">>, <<"[", "$", "'", "]">>,
      <<"$", GraveAccent>>, <<"$", "1">>, searchText }

----------------------------------------------------------------------------
(* The edit handlers as steps over the file system.  A handler keeps no    *)
(* state between calls: what it does is decided by the text of the file    *)
(* and its arguments.  A behaviour is one document of InitDocs and one     *)
(* call on it.                                                             *)

NoCall == [op |-> "none"]

Handler(call, content) ==
    CASE call.op = "insert" ->
            insertContent(content, call.position, call.text, call.expectedLineBefore)
      [] call.op = "delete" ->
            deleteContent(content, call.startPos, call.endPos, call.expectedContent)
      [] call.op = "replace" ->
            replaceContent(content, call.searchText, call.replaceText, call.all)

\* A completed call: its arguments, the text it read, its result.
Completed(call, content, result) ==
    [call |-> call, content |-> content, result |-> result]

\* No call in flight, none completed.
Idle == Completed(NoCall, <<>>, [kind |-> "none"])

InsertCalls(content) ==
    {[op |-> "insert", position |-> p, text |-> t, expectedLineBefore |-> e] :
        p \in InsertPositions(content), t \in InsertTexts, e \in ExpectedLines(content)}

DeleteCalls(content) ==
    UNION {{[op |-> "delete", startPos |-> a, endPos |-> b, expectedContent |-> e] :
                e \in ExpectedContents(content, a, b)} :
           a \in -1..MaxPos, b \in -1..MaxPos}

ReplaceCalls ==
    UNION {{[op |-> "replace", searchText |-> st, replaceText |-> rt, all |-> al] :
                rt \in ReplaceTexts(st), al \in BOOLEAN} :
           st \in SearchTexts}

EditCalls(content) ==
    InsertCalls(content) \cup DeleteCalls(content) \cup ReplaceCalls

\* A whole handler when no file operation fails: read, validate, and on
\* success write the temp file and rename it over the document (lines
\* 197-201), which leaves no temp file.
RunHandler(call) ==
    /\ pc = "idle"
    /\ last = Idle
    /\ LET result == Handler(call, doc)
       IN  /\ doc' = IF result.kind = "ok" THEN result.newContent ELSE doc
           /\ last' = Completed(call, doc, result)
    /\ UNCHANGED <<tmp, pc, cur>>
    /\ UNCHANGED <<dbVars, serverVars>>

InsertContent ==
    /\ last = Idle
    /\ \E call \in InsertCalls(doc) : RunHandler(call)

DeleteContent ==
    /\ last = Idle
    /\ \E call \in DeleteCalls(doc) : RunHandler(call)

ReplaceContent ==
    /\ last = Idle
    /\ \E call \in ReplaceCalls : RunHandler(call)

\* The same handlers step by step, each file operation able to fail.
\* Lines 10-196 (insert), 257-332 (delete), 367-520 (replace): everything up
\* to the atomic write.  A call that is rejected or fails softly ends here.
Begin ==
    /\ pc = "idle"
    /\ last = Idle
    /\ \E call \in EditCalls(doc) :
          LET result == Handler(call, doc)
          IN  IF result.kind = "ok"
              THEN /\ cur' = Completed(call, doc, result)
                   /\ pc' = "write"
                   /\ UNCHANGED last
              ELSE /\ last' = Completed(call, doc, result)
                   /\ UNCHANGED <<cur, pc>>
    /\ UNCHANGED <<doc, tmp>>
    /\ UNCHANGED <<dbVars, serverVars>>

\* fs.writeFile(tempPath, newContent) succeeds.
WriteTempOk ==
    /\ pc = "write"
    /\ tmp' = Some(cur.result.newContent)
    /\ pc' = "rename"
    /\ UNCHANGED <<doc, cur, last>>
    /\ UNCHANGED <<dbVars, serverVars>>

\* A write in place: fs.writeFile on the document itself fails, leaving a
\* proper prefix of the new text in it.
WriteInPlaceFail ==
    /\ pc = "write"
    /\ \E k \in 0..(Len(cur.result.newContent) - 1) :
          doc' = Slice(cur.result.newContent, 0, k)
    /\ pc' = "cleanup"
    /\ UNCHANGED <<tmp, cur, last>>
    /\ UNCHANGED <<dbVars, serverVars>>

\* fs.writeFile fails: the temp file was not created, or holds a proper
\* prefix of the text.
WriteTempFail ==
    /\ pc = "write"
    /\ \/ tmp' = None
       \/ \E k \in 0..(Len(cur.result.newContent) - 1) :
             tmp' = Some(Slice(cur.result.newContent, 0, k))
    /\ pc' = "cleanup"
    /\ UNCHANGED <<doc, cur, last>>
    /\ UNCHANGED <<dbVars, serverVars>>

\* fs.rename(tempPath, docPath) succeeds: the document is replaced in one
\* step and the handler returns its success result.
RenameOk ==
    /\ pc = "rename"
    /\ doc' = Get(tmp)
    /\ tmp' = None
    /\ pc' = "idle"
    /\ last' = cur
    /\ cur' = Idle
    /\ UNCHANGED <<dbVars, serverVars>>

\* fs.rename fails: nothing moved.
RenameFail ==
    /\ pc = "rename"
    /\ pc' = "cleanup"
    /\ UNCHANGED <<doc, tmp, cur, last>>
    /\ UNCHANGED <<dbVars, serverVars>>

\* Lines 202-207: the catch block unlinks the temp file (an unlink of a file
\* that is not there throws and is swallowed) and throws InternalError.
Cleanup ==
    /\ pc = "cleanup"
    /\ tmp' = None
    /\ pc' = "idle"
    /\ last' = Completed(cur.call, cur.content, Error("InternalError"))
    /\ cur' = Idle
    /\ UNCHANGED doc
    /\ UNCHANGED <<dbVars, serverVars>>


----------------------------------------------------------------------------
(* The database folder: database.json and one markdown file per row.       *)
(* A row file is held as the pair that the front-matter parser reads from  *)
(* it: its front-matter map (key -> value) and its body.  Column ids and   *)
(* front-matter keys are strings; titles, file names, view ids and bodies  *)
(* are texts (sequences of characters).                                    *)

DefaultViewId == <<"d", "e", "f", "a", "u", "l", "t">>
AllItems == <<"A", "l", "l", " ", "I", "t", "e", "m", "s">>
UntitledFile == <<"u", "n", "t", "i", "t", "l", "e", "d">>
Untitled == <<"U", "n", "t", "i", "t", "l", "e", "d">>
MdSuffix == <<".", "m", "d">>

Str(s) == [t |-> "string", v |-> s]
Bool(b) == [t |-> "boolean", v |-> b]

EmptyMap == [k \in {} |-> None]

\* delete obj[key]
Without(obj, key) == [k \in DOMAIN obj \ {key} |-> obj[k]]

\* obj[key] = value
With(obj, key, value) == (key :> value) @@ obj

UpperSeq == <<"A", "B", "C", "D", "E", "F", "G", "H", "I", "J", "K", "L", "M", "N", "O", "P", "Q", "R", "S", "T", "U", "V", "W", "X", "Y", "Z">>
LowerSeq == <<"a", "b", "c", "d", "e", "f", "g", "h", "i", "j", "k", "l", "m", "n", "o", "p", "q", "r", "s", "t", "u", "v", "w", "x", "y", "z">>

\* String.prototype.toLowerCase
ToLowerCase(s) ==
    [i \in 1..Len(s) |->
        IF s[i] \in Upper
        THEN LowerSeq[CHOOSE j \in 1..Len(UpperSeq) : UpperSeq[j] = s[i]]
        ELSE s[i]]

\* s.replace(/[^cls]/g, '')
Keep(s, cls) == SelectSeq(s, LAMBDA c : c \in cls)

\* s.replace(/[cls]+/g, by): every maximal run of cls characters becomes by
RECURSIVE SquashFrom(_, _, _, _)
SquashFrom(s, i, cls, by) ==
    IF i >= Len(s) THEN <<>>
    ELSE IF s[i + 1] \in cls
         THEN <<by>> \o SquashFrom(s, RunEnd(s, i, cls), cls, by)
         ELSE <<s[i + 1]>> \o SquashFrom(s, i + 1, cls, by)

Squash(s, cls, by) == SquashFrom(s, 0, cls, by)

generateSafeFileName(title) ==
    LET sanitized ==
            Trim(Squash(Squash(Keep(ToLowerCase(title),
                                    Lower \cup Digit \cup WhiteSpace \cup {"-"}),
                               WhiteSpace, "-"),
                        {"-"}, "-"))
    IN  (IF sanitized # <<>> THEN sanitized ELSE UntitledFile) \o MdSuffix

\* The parsed form of a row file.
parseMarkdownWithFrontmatter(file) ==
    [frontmatter |-> file.frontmatter, content |-> file.content]

\* The serializer ends the body with a line feed when it writes a front
\* matter block before it; an empty front matter leaves the body as it is.
Newline(str) ==
    IF Len(str) > 0 /\ str[Len(str)] = "\n" THEN str ELSE str \o <<"\n">>

stringifyMarkdownWithFrontmatter(frontmatter, content) ==
    IF DOMAIN frontmatter = {}
    THEN [frontmatter |-> EmptyMap, content |-> content]
    ELSE [frontmatter |-> frontmatter, content |-> Newline(content)]

DbOutcome(result, cfg, fls) == [result |-> result, config |-> cfg, files |-> fls]

Ok == [kind |-> "ok"]

NotFound(cfg, fls) == DbOutcome(Error("InvalidRequest"), cfg, fls)

\* getDatabaseConfig throws when database.json cannot be read.
DatabaseExists(cfg) == IsSome(cfg)

DefaultColumns ==
    << [id |-> "title", name |-> "Title", type |-> "title"],
       [id |-> "status", name |-> "Status", type |-> "select",
        options |-> <<"Todo", "In Progress", "Done">>],
       [id |-> "tags", name |-> "Tags", type |-> "multiselect", options |-> <<>>] >>

DefaultView ==
    [id |-> DefaultViewId, name |-> AllItems, type |-> "table",
     filters |-> <<>>, sorts |-> <<>>]

\* The config's name and creation time take no part in any operation and
\* are left out.
createDatabase(cfg, fls, columns) ==
    IF DatabaseExists(cfg)
    THEN DbOutcome(Error("InvalidRequest"), cfg, fls)
    ELSE DbOutcome(Ok,
                   Some([columns |-> IF Len(columns) > 0 THEN columns ELSE DefaultColumns,
                         views |-> <<DefaultView>>,
                         defaultView |-> DefaultViewId]),
                   fls)

\* Number.prototype.toString for a counter
RECURSIVE Decimal(_)
Decimal(n) ==
    LET digits == <<"0", "1", "2", "3", "4", "5", "6", "7", "8", "9">>
    IN  IF n < 10 THEN <<digits[n + 1]>>
        ELSE Decimal(n \div 10) \o <<digits[(n % 10) + 1]>>

\* The file name taken as it is, whether or not a file has it.
SameFileName(fls, fileName, uniqueFileName, counter) == fileName

\* The first of fileName, base-1.md, base-2.md, ... that names no file.
RECURSIVE UniqueFileName(_, _, _, _)
UniqueFileName(fls, fileName, uniqueFileName, counter) ==
    IF uniqueFileName \in DOMAIN fls
    THEN UniqueFileName(fls, fileName,
                        ReplaceFirst(fileName, MdSuffix, <<>>)
                            \o <<"-">> \o Decimal(counter) \o MdSuffix,
                        counter + 1)
    ELSE uniqueFileName

\* One pass of the loop of addRows.  rowData is [title, fields, content]:
\* its title, its properties other than title and _content, and _content;
\* an absent title or _content is the empty text.
AddRow(fls, rowData) ==
    LET title == IF rowData.title # <<>> THEN rowData.title ELSE Untitled
        fileName == generateSafeFileName(title)
        uniqueFileName == UniqueFileName(fls, fileName, fileName, 1)
        frontmatter == rowData.fields
        bodyContent == IF rowData.content # <<>> THEN rowData.content
                       ELSE <<"#", " ">> \o title \o <<"\n", "\n">>
    IN  With(fls, uniqueFileName,
             stringifyMarkdownWithFrontmatter(frontmatter, bodyContent))

RECURSIVE AddRowsFrom(_, _, _)
AddRowsFrom(fls, rowsArray, i) ==
    IF i > Len(rowsArray) THEN fls
    ELSE AddRowsFrom(AddRow(fls, rowsArray[i]), rowsArray, i + 1)

addRows(cfg, fls, rows) ==
    IF ~DatabaseExists(cfg) THEN NotFound(cfg, fls)
    ELSE DbOutcome(Ok, cfg, AddRowsFrom(fls, rows, 1))

----------------------------------------------------------------------------
(* Specifications.                                                         *)

NoFiles == <<>>
NoDbCall == [call |-> NoCall, result |-> [kind |-> "none"]]

InitEdit ==
    /\ doc \in InitDocs
    /\ tmp = None
    /\ pc = "idle"
    /\ cur = Idle
    /\ last = Idle
    /\ config = None
    /\ files = NoFiles
    /\ dbLast = NoDbCall
    /\ dbOps = 0
    /\ inflight = <<>>
    /\ temps = <<>>

\* The editor when no file operation fails: one action per handler.
Next ==
    \/ InsertContent
    \/ DeleteContent
    \/ ReplaceContent

Spec == InitEdit /\ [][Next]_vars

\* The editor with its file operations as steps that can fail.
NextAtomic ==
    \/ Begin
    \/ WriteTempOk
    \/ WriteTempFail
    \/ RenameOk
    \/ RenameFail
    \/ Cleanup

SpecAtomic == InitEdit /\ [][NextAtomic]_vars


----------------------------------------------------------------------------
(* The server handling several edit requests.  The request handler of      *)
(* part_000 (lines 33-56) is an async function: it awaits the tool handler, *)
(* and the tool handler awaits each file operation, so the handler of a    *)
(* second request runs while the first one waits.  Between the read of the *)
(* document and the write of the temp file a handler does not wait.        *)

Requests == {1, 2}

\* Date.now() at the write of the temp file (content.js line 197).
Stamps == {1, 2}

\* The edits requested: text put at the start or at the end of the document.
RequestedCalls ==
    {[op |-> "insert", position |-> p, text |-> t, expectedLineBefore |-> None] :
        p \in {[t |-> "start"], [t |-> "end"]}, t \in InsertTexts}

RequestDocs == {<<>>, <<"a", "a", "a">>}

\* Lines 10-196: the handler of request r starts, reads the document and
\* computes the new text; a call that is rejected ends here.
ReadDocument(r) ==
    /\ r \notin DOMAIN inflight
    /\ \E call \in RequestedCalls :
          LET result == Handler(call, doc)
          IN  inflight' = inflight @@
                  (r :> [pc |-> IF result.kind = "ok" THEN "write" ELSE "done",
                         call |-> call, content |-> doc, result |-> result,
                         tempPath |-> 0])
    /\ UNCHANGED <<doc, temps>>
    /\ UNCHANGED <<tmp, pc, cur, last, dbVars>>

\* Lines 197-199: fs.writeFile(tempPath, newContent), the temp file named
\* by the time.
WriteTemp(r) ==
    /\ r \in DOMAIN inflight
    /\ inflight[r].pc = "write"
    /\ \E now \in Stamps :
          /\ temps' = (now :> inflight[r].result.newContent) @@ temps
          /\ inflight' = [inflight EXCEPT ![r].pc = "rename", ![r].tempPath = now]
    /\ UNCHANGED doc
    /\ UNCHANGED <<tmp, pc, cur, last, dbVars>>

\* Line 200: fs.rename(tempPath, docPath) moves the temp file over the
\* document and the handler returns its result.
RenameTemp(r) ==
    /\ r \in DOMAIN inflight
    /\ inflight[r].pc = "rename"
    /\ inflight[r].tempPath \in DOMAIN temps
    /\ doc' = temps[inflight[r].tempPath]
    /\ temps' = [t \in DOMAIN temps \ {inflight[r].tempPath} |-> temps[t]]
    /\ inflight' = [inflight EXCEPT ![r].pc = "done"]
    /\ UNCHANGED <<tmp, pc, cur, last, dbVars>>

\* Lines 200-207: the temp file is gone, renamed by another handler that
\* wrote under the same name; fs.rename throws, the unlink of the catch
\* block throws and is swallowed, and the call ends in InternalError.
RenameMissing(r) ==
    /\ r \in DOMAIN inflight
    /\ inflight[r].pc = "rename"
    /\ inflight[r].tempPath \notin DOMAIN temps
    /\ inflight' = [inflight EXCEPT ![r].pc = "done",
                                    ![r].result = Error("InternalError")]
    /\ UNCHANGED <<doc, temps>>
    /\ UNCHANGED <<tmp, pc, cur, last, dbVars>>

InitServer ==
    /\ doc \in RequestDocs
    /\ tmp = None
    /\ pc = "idle"
    /\ cur = Idle
    /\ last = Idle
    /\ config = None
    /\ files = NoFiles
    /\ dbLast = NoDbCall
    /\ dbOps = 0
    /\ inflight = <<>>
    /\ temps = <<>>

NextServer ==
    \E r \in Requests :
        \/ ReadDocument(r)
        \/ WriteTemp(r)
        \/ RenameTemp(r)
        \/ RenameMissing(r)

SpecServer == InitServer /\ [][NextServer]_vars

----------------------------------------------------------------------------
(* Addressing a document: resolveWorkspace and getDocumentPath             *)
(* (src/tools/index.js 79-124, 163-214), which every edit handler calls    *)
(* before it reads the document.  A plain Error thrown here reaches the    *)
(* handler's catch (content.js 244-251) and leaves it as InternalError.    *)

Threw == [kind |-> "threw"]
Returned(value) == [kind |-> "returned", value |-> value]

StartsWith(s, prefix) == Slice(s, 0, Len(prefix)) = prefix
EndsWith(s, suffix) == Len(s) >= Len(suffix) /\ SliceFrom(s, Len(s) - Len(suffix)) = suffix

\* The first entry of a list that satisfies Test (Array.prototype.find).
FindFirst(list, Test(_)) ==
    LET found == {k \in 1..Len(list) : Test(list[k])}
    IN  IF found = {} THEN None
        ELSE Some(list[CHOOSE k \in found : \A j \in found : k <= j])

\* The machine: one workspace, listed in workspaces.json, with one
\* registered document, stored in the file that the variable doc holds.
WorkspacePath == <<"/", "w">>
WorkspaceId == <<"w", "1">>
WorkspaceName == <<"N">>
Workspaces == <<[id |-> WorkspaceId, name |-> WorkspaceName, path |-> WorkspacePath]>>

DocumentFile == <<"a", ".", "m", "d">>
DocumentsFolder == <<"d", "o", "c", "u", "m", "e", "n", "t", "s", "/">>
RegisteredDocuments ==
    <<[id |-> <<"d", "1">>, name |-> <<"A">>, fileName |-> DocumentFile,
       path |-> DocumentsFolder \o DocumentFile]>>

\* index.js 141-150: the registry of a folder without a registry file is
\* the empty registry.
readRegistry(workspacePath) ==
    IF workspacePath = WorkspacePath THEN RegisteredDocuments ELSE <<>>

\* index.js 79-124
resolveWorkspace(workspaceIdOrPath) ==
    IF StartsWith(workspaceIdOrPath, <<"/">>) \/ Includes(workspaceIdOrPath, <<"\\">>)
    THEN Returned(workspaceIdOrPath)
    ELSE LET workspace == FindFirst(Workspaces,
                 LAMBDA ws : ws.id = workspaceIdOrPath \/ ws.name = workspaceIdOrPath)
         IN  IF ~IsSome(workspace) THEN Threw
             ELSE Returned(Get(workspace).path)

\* index.js 163-214; every registered document has a path field, so the
\* result is path.join(workspacePath, doc.path).
getDocumentPath(workspacePath, documentId) ==
    LET documents == readRegistry(workspacePath)
        byId == FindFirst(documents,
                    LAMBDA d : \/ d.id = documentId
                               \/ d.name = documentId
                               \/ d.fileName = documentId
                               \/ d.fileName = documentId \o MdSuffix)
        possibleFilename == IF EndsWith(documentId, MdSuffix) THEN documentId
                            ELSE documentId \o MdSuffix
        byPath == FindFirst(documents,
                    LAMBDA d : \/ d.path = DocumentsFolder \o possibleFilename
                               \/ d.path = possibleFilename)
        found == IF IsSome(byId) THEN byId ELSE byPath
    IN  IF ~IsSome(found) THEN Threw
        ELSE Returned(workspacePath \o <<"/">> \o Get(found).path)

\* content.js 10-251, insertContent with its addressing: the two required
\* names (lines 12-17), the workspace and the document (lines 39-40), then
\* the edit of the text that was read.
AddressedInsert(workspaceIdOrPath, documentId, call, content) ==
    IF Len(workspaceIdOrPath) = 0 \/ Len(documentId) = 0 THEN Error("InvalidParams")
    ELSE LET workspace == resolveWorkspace(workspaceIdOrPath)
         IN  IF workspace.kind = "threw" THEN Error("InternalError")
             ELSE LET docPath == getDocumentPath(workspace.value, documentId)
                  IN  IF docPath.kind = "threw" THEN Error("InternalError")
                      ELSE Handler(call, content)

WorkspaceInputs == {<<>>, WorkspacePath, WorkspaceId, WorkspaceName, <<"/", "x">>, <<"x">>}
DocumentInputs ==
    {<<>>, <<"d", "1">>, <<"A">>, <<"a">>, DocumentFile, DocumentsFolder \o DocumentFile,
     <<"x">>}

\* One insert_content call with its workspace and document names.
InsertAddressed ==
    /\ last = Idle
    /\ \E workspaceIdOrPath \in WorkspaceInputs, documentId \in DocumentInputs,
          call \in RequestedCalls :
          LET result == AddressedInsert(workspaceIdOrPath, documentId, call, doc)
          IN  /\ doc' = IF result.kind = "ok" THEN result.newContent ELSE doc
              /\ last' = Completed([workspace |-> workspaceIdOrPath,
                                    documentId |-> documentId,
                                    op |-> "addressed", edit |-> call],
                                   doc, result)
    /\ UNCHANGED <<tmp, pc, cur>>
    /\ UNCHANGED <<dbVars, serverVars>>

SpecAddressed == InitServer /\ [][InsertAddressed]_vars

----------------------------------------------------------------------------
(* Reading the rows of the database folder.  A row is a map from property  *)
(* names to values; its id, filePath, fileName, title and _contentPreview  *)
(* are string values like those of its front matter.                       *)

PreviewLength == 200

\* path.join(fullPath, '') of the database folder.
DatabasePath == <<"/", "w", "/", "d", "b", "/">>

\* path.join(fullPath, fileName), normalized.
FilePath(fileName) == DatabasePath \o fileName

IsString(value) == value.t = "string"
IsBoolean(value) == value.t = "boolean"

\* The row built from one file, lines 911-923: the front matter is spread
\* over id, filePath, fileName and title, and _contentPreview over all.
RowOf(fileName, file) ==
    LET parsed == parseMarkdownWithFrontmatter(file)
        title == ReplaceFirst(fileName, MdSuffix, <<>>)
        named == [id |-> Str(FilePath(fileName)),
                  filePath |-> Str(FilePath(fileName)),
                  fileName |-> Str(fileName),
                  title |-> Str(title)]
    IN  With(parsed.frontmatter @@ named, "_contentPreview",
             Str(Slice(parsed.content, 0, PreviewLength)))

\* The orders in which fs.readdir may list the row files.
RECURSIVE OrdersOf(_)
OrdersOf(names) ==
    IF names = {} THEN {<<>>}
    ELSE UNION {{<<name>> \o rest : rest \in OrdersOf(names \ {name})} : name \in names}

DirectoryOrders(fls) == OrdersOf(DOMAIN fls)

\* getDatabaseRows for a directory listing in the given order.
getDatabaseRows(fls, order) ==
    [i \in 1..Len(order) |-> RowOf(order[i], fls[order[i]])]

\* row[key], undefined when the row lacks the key.
Undefined == [t |-> "undefined"]
Prop(row, key) == IF key \in DOMAIN row THEN row[key] ELSE Undefined

\* String(value || ''): a string is itself, true is "true", and false and
\* a missing value are the empty string.
StringOrEmpty(value) ==
    IF IsString(value) THEN value.v
    ELSE IF value = Bool(TRUE) THEN <<"t", "r", "u", "e">>
    ELSE <<>>

\* String(value ?? ''): as above, but false is "false".
StringOrDefault(value) ==
    IF value = Bool(FALSE) THEN <<"f", "a", "l", "s", "e">> ELSE StringOrEmpty(value)

\* The collation order of the characters of this model under
\* String.prototype.localeCompare: white space, punctuation, digits,
\* letters; letters compare without case first.
CollationOrder ==
    <<"\n", " ", "_", "-", ".", "/", "#",
      "0", "1", "2", "3", "4", "5", "6", "7", "8", "9">> \o LowerSeq

Rank(c) ==
    LET l == ToLowerCase(<<c>>)[1]
    IN  CHOOSE k \in 1..Len(CollationOrder) : CollationOrder[k] = l

\* Lexicographic comparison of two texts by key(character): -1, 0 or 1.
RECURSIVE CompareFrom(_, _, _, _)
CompareFrom(a, b, i, key) ==
    IF i > Len(a) /\ i > Len(b) THEN 0
    ELSE IF i > Len(a) THEN -1
    ELSE IF i > Len(b) THEN 1
    ELSE LET ka == IF key = "rank" THEN Rank(a[i]) ELSE IF a[i] \in Upper THEN 1 ELSE 0
             kb == IF key = "rank" THEN Rank(b[i]) ELSE IF b[i] \in Upper THEN 1 ELSE 0
         IN  IF ka < kb THEN -1
             ELSE IF ka > kb THEN 1
             ELSE CompareFrom(a, b, i + 1, key)

\* a.localeCompare(b): by letters first, then lower case before upper case.
LocaleCompare(a, b) ==
    LET primary == CompareFrom(a, b, 1, "rank")
    IN  IF primary # 0 THEN primary ELSE CompareFrom(a, b, 1, "case")

\* Number(value) for a string of digits, the empty string (0), true (1),
\* false (0) and anything else (NaN, here None).
DigitSeq == <<"0", "1", "2", "3", "4", "5", "6", "7", "8", "9">>

RECURSIVE DigitsValue(_, _)
DigitsValue(s, acc) ==
    IF s = <<>> THEN acc
    ELSE DigitsValue(Tail(s),
                     10 * acc + ((CHOOSE k \in 1..10 : DigitSeq[k] = Head(s)) - 1))

ToNumber(value) ==
    IF IsBoolean(value) THEN Some(IF value.v THEN 1 ELSE 0)
    ELSE IF ~IsString(value) THEN None
    ELSE IF \A i \in 1..Len(value.v) : value.v[i] \in Digit
         THEN Some(DigitsValue(value.v, 0))
         ELSE None

\* The switch of lines 1027-1047 on one row: the explicit filters.
MatchesFilter(row, filter) ==
    LET value == Prop(row, filter.column)
        text == ToLowerCase(StringOrEmpty(value))
        filterText == ToLowerCase(StringOrEmpty(filter.value))
        empty == value = Undefined \/ value = Str(<<>>)
    IN  CASE filter.operator = "equals" ->
                IF IsBoolean(value) THEN value = filter.value ELSE text = filterText
          [] filter.operator = "notEquals" ->
                IF IsBoolean(value) THEN value # filter.value ELSE text # filterText
          [] filter.operator = "contains" -> Includes(text, filterText)
          [] filter.operator = "notContains" -> ~Includes(text, filterText)
          [] filter.operator = "greaterThan" ->
                /\ IsSome(ToNumber(value)) /\ IsSome(ToNumber(filter.value))
                /\ Get(ToNumber(value)) > Get(ToNumber(filter.value))
          [] filter.operator = "lessThan" ->
                /\ IsSome(ToNumber(value)) /\ IsSome(ToNumber(filter.value))
                /\ Get(ToNumber(value)) < Get(ToNumber(filter.value))
          [] filter.operator = "isEmpty" -> empty
          [] filter.operator = "isNotEmpty" -> ~empty
          [] OTHER -> TRUE

\* A stored filter matched as an explicit one, on every operator.
MatchesViewFilterAll(row, filter) == MatchesFilter(row, filter)

\* The switch of lines 1078-1085: a filter stored in a view.
MatchesViewFilter(row, filter) ==
    LET text == ToLowerCase(StringOrEmpty(Prop(row, filter.column)))
        filterText == ToLowerCase(StringOrEmpty(filter.value))
    IN  CASE filter.operator = "equals" -> text = filterText
          [] filter.operator = "contains" -> Includes(text, filterText)
          [] OTHER -> TRUE

\* rows filtered by every filter of the list in turn.
ApplyFilters(rows, filters) ==
    SelectSeq(rows, LAMBDA row : \A k \in 1..Len(filters) : MatchesFilter(row, filters[k]))

ApplyViewFilters(rows, filters) ==
    SelectSeq(rows, LAMBDA row : \A k \in 1..Len(filters) : MatchesViewFilter(row, filters[k]))

\* The comparator of lines 1056-1066 and 1095-1100 (string values):
\* negative when a comes first.
CompareRows(a, b, sort) ==
    LET comparison == LocaleCompare(StringOrDefault(Prop(a, sort.column)),
                                    StringOrDefault(Prop(b, sort.column)))
    IN  IF sort.direction = "asc" THEN comparison ELSE -comparison

\* Array.prototype.sort, which is stable: row goes before the first row of
\* sorted that comes after it, behind every row it ties with.
InsertSorted(sorted, row, sort) ==
    LET after == {k \in 1..Len(sorted) : CompareRows(sorted[k], row, sort) > 0}
        at == IF after = {} THEN Len(sorted) + 1
              ELSE CHOOSE k \in after : \A j \in after : k <= j
    IN  SubSeq(sorted, 1, at - 1) \o <<row>> \o SubSeq(sorted, at, Len(sorted))

RECURSIVE SortFrom(_, _, _, _)
SortFrom(rows, i, sorted, sort) ==
    IF i > Len(rows) THEN sorted
    ELSE SortFrom(rows, i + 1, InsertSorted(sorted, rows[i], sort), sort)

SortRows(rows, sort) == SortFrom(rows, 1, <<>>, sort)

\* Lines 1009-1018: the search.
MatchesSearch(row, search) ==
    LET query == ToLowerCase(search)
    IN  \/ /\ IsString(Prop(row, "title"))
           /\ Includes(ToLowerCase(row.title.v), query)
        \/ \E key \in DOMAIN row :
              IsString(row[key]) /\ Includes(ToLowerCase(row[key].v), query)

\* config.views.find(v => v.id === viewId)
FindView(views, viewId) ==
    LET found == {k \in 1..Len(views) : views[k].id = viewId}
    IN  IF found = {} THEN None
        ELSE Some(views[CHOOSE k \in found : \A j \in found : k <= j])

\* options is [search, filters, sort, viewId, limit]: an absent search or
\* viewId is the empty text, an absent filters, sort or limit is None.
\* The rows after each stage of lines 1007-1108.
Searched(rows, options) ==
    IF options.search # <<>>
    THEN SelectSeq(rows, LAMBDA row : MatchesSearch(row, options.search))
    ELSE rows

Filtered(rows, options) ==
    IF IsSome(options.filters) THEN ApplyFilters(rows, Get(options.filters)) ELSE rows

Sorted(rows, options) ==
    IF IsSome(options.sort) THEN SortRows(rows, Get(options.sort)) ELSE rows

\* The view applied whatever the explicit options are.
ViewedAlways(rows, options, views) ==
    LET view == IF options.viewId # <<>> THEN FindView(views, options.viewId) ELSE None
    IN  IF ~IsSome(view) THEN rows
        ELSE LET filtered == ApplyViewFilters(rows, Get(view).filters)
             IN  IF Len(Get(view).sorts) > 0
                 THEN SortRows(filtered, Get(view).sorts[1])
                 ELSE filtered

Viewed(rows, options, views) ==
    LET view == IF options.viewId # <<>> THEN FindView(views, options.viewId) ELSE None
    IN  IF ~IsSome(view) THEN rows
        ELSE LET filtered ==
                     IF ~IsSome(options.filters) /\ Len(Get(view).filters) > 0
                     THEN ApplyViewFilters(rows, Get(view).filters)
                     ELSE rows
             IN  IF ~IsSome(options.sort) /\ Len(Get(view).sorts) > 0
                 THEN SortRows(filtered, Get(view).sorts[1])
                 ELSE filtered

\* options.limit && typeof options.limit === 'number'
Limited(rows, options) ==
    IF IsSome(options.limit) /\ Get(options.limit) # 0
    THEN SubSeq(rows, 1, Min(Get(options.limit), Len(rows)))
    ELSE rows

\* The rows before the limit: searched, filtered, sorted, then the view.
QueryRows(cfg, fls, order, options) ==
    Viewed(Sorted(Filtered(Searched(getDatabaseRows(fls, order), options), options),
                  options),
           options, Get(cfg).views)

readDatabase(cfg, fls, order, options) ==
    IF ~DatabaseExists(cfg) THEN NotFound(cfg, fls)
    ELSE LET rows == Limited(QueryRows(cfg, fls, order, options), options)
         IN  DbOutcome([kind |-> "ok", rows |-> rows, totalCount |-> Len(rows),
                        columns |-> Get(cfg).columns, views |-> Get(cfg).views],
                       cfg, fls)

----------------------------------------------------------------------------
(* Updating and deleting rows.                                             *)

\* The file a path names, None when the path is not in the database folder.
FileNameOf(fls, filePath) ==
    LET named == {name \in DOMAIN fls : FilePath(name) = filePath}
    IN  IF named = {} THEN None ELSE Some(CHOOSE name \in named : TRUE)

\* Object.entries(where).every(([key, value]) => row[key] === value)
MatchesWhere(row, where) ==
    \A key \in DOMAIN where : Prop(row, key) = where[key]

\* options is [ids, where], each None when absent.  Lines 1262-1276 and
\* 1351-1365: the rows an updateRows or deleteRows addresses.
HasCriteria(options) == IsSome(options.ids) \/ IsSome(options.where)

SelectedRows(rows, options) ==
    IF IsSome(options.ids)
    THEN SelectSeq(rows, LAMBDA r :
            \E k \in 1..Len(Get(options.ids)) :
                Get(options.ids)[k] \in {StringOrEmpty(Prop(r, "id")),
                                         StringOrEmpty(Prop(r, "filePath"))})
    ELSE SelectSeq(rows, LAMBDA r : MatchesWhere(r, Get(options.where)))

\* unlink(path): the directory without that file.
Unlink(fls, fileName) == [name \in DOMAIN fls \ {fileName} |-> fls[name]]

\* { ...frontmatter, ...updates } without title and _content.  updates is
\* [title, fields, content] as the row data of addRows.
MergedFrontmatter(frontmatter, updates) ==
    Without(Without(updates.fields @@ frontmatter, "title"), "_content")

\* updates.title && updates.title !== row.title
RenamesRow(row, updates) ==
    updates.title # <<>> /\ Str(updates.title) # Prop(row, "title")

\* One pass of the loop of updateRows (lines 1278-1321) on the directory:
\* None when reading the row's file throws.
UpdateRow(fls, row, updates) ==
    LET fileName == FileNameOf(fls, StringOrEmpty(Prop(row, "filePath")))
    IN  IF ~IsSome(fileName) THEN None
        ELSE LET parsed == parseMarkdownWithFrontmatter(fls[Get(fileName)])
                 newFrontmatter == MergedFrontmatter(parsed.frontmatter, updates)
                 newBodyContent == IF updates.content # <<>> THEN updates.content
                                   ELSE parsed.content
                 newContent == stringifyMarkdownWithFrontmatter(newFrontmatter, newBodyContent)
             IN  IF RenamesRow(row, updates)
                 THEN Some(Unlink(With(fls, generateSafeFileName(updates.title), newContent),
                                  Get(fileName)))
                 ELSE Some(With(fls, Get(fileName), newContent))

RECURSIVE UpdateRowsFrom(_, _, _, _)
UpdateRowsFrom(fls, rowsToUpdate, i, updates) ==
    IF i > Len(rowsToUpdate) THEN [kind |-> "ok", files |-> fls]
    ELSE LET next == UpdateRow(fls, rowsToUpdate[i], updates)
         IN  IF ~IsSome(next) THEN [kind |-> "error", files |-> fls]
             ELSE UpdateRowsFrom(Get(next), rowsToUpdate, i + 1, updates)

updateRows(cfg, fls, order, updates, options) ==
    IF ~DatabaseExists(cfg) THEN NotFound(cfg, fls)
    ELSE IF ~HasCriteria(options) THEN DbOutcome(Error("InvalidParams"), cfg, fls)
    ELSE LET rowsToUpdate == SelectedRows(getDatabaseRows(fls, order), options)
             done == UpdateRowsFrom(fls, rowsToUpdate, 1, updates)
         IN  IF done.kind = "ok"
             THEN DbOutcome([kind |-> "ok", count |-> Len(rowsToUpdate)], cfg, done.files)
             ELSE DbOutcome(Error("InternalError"), cfg, done.files)

RECURSIVE DeleteRowsFrom(_, _, _)
DeleteRowsFrom(fls, rowsToDelete, i) ==
    IF i > Len(rowsToDelete) THEN [kind |-> "ok", files |-> fls]
    ELSE LET fileName == FileNameOf(fls, StringOrEmpty(Prop(rowsToDelete[i], "filePath")))
         IN  IF ~IsSome(fileName) THEN [kind |-> "error", files |-> fls]
             ELSE DeleteRowsFrom(Unlink(fls, Get(fileName)), rowsToDelete, i + 1)

deleteRows(cfg, fls, order, options) ==
    IF ~DatabaseExists(cfg) THEN NotFound(cfg, fls)
    ELSE IF ~HasCriteria(options) THEN DbOutcome(Error("InvalidParams"), cfg, fls)
    ELSE LET rowsToDelete == SelectedRows(getDatabaseRows(fls, order), options)
             done == DeleteRowsFrom(fls, rowsToDelete, 1)
         IN  IF done.kind = "ok"
             THEN DbOutcome([kind |-> "ok", count |-> Len(rowsToDelete)], cfg, done.files)
             ELSE DbOutcome(Error("InternalError"), cfg, done.files)

----------------------------------------------------------------------------
(* Columns and views.  The column operations save database.json first and  *)
(* then rewrite the row files one by one, each read and written at the     *)
(* filePath of its row.                                                    *)

\* columns.some(c => c.id === id)
HasColumn(columns, id) == \E i \in 1..Len(columns) : columns[i].id = id

\* columns.findIndex(c => c.id === id), counted from 0
FindColumnIndex(columns, id) ==
    IF HasColumn(columns, id)
    THEN (CHOOSE i \in 1..Len(columns) :
            /\ columns[i].id = id
            /\ \A j \in 1..(i - 1) : columns[j].id # id) - 1
    ELSE -1

\* The row file written back with a new front matter and the body it had.
RewriteRow(file, frontmatter) ==
    stringifyMarkdownWithFrontmatter(frontmatter,
                                     parseMarkdownWithFrontmatter(file).content)

\* The file a row loop reads and writes for a row: the one at row.filePath,
\* None when no file is there and fs.readFile throws.
RowFile(fls, row) == FileNameOf(fls, StringOrEmpty(Prop(row, "filePath")))

\* The end of a row loop: every row done, or a read that threw.
LoopDone(fls) == [kind |-> "ok", files |-> fls]
LoopThrew(fls) == [kind |-> "error", files |-> fls]

\* The outcome of a column operation after database.json was saved as cfg
\* and the row loop ended as done.
AfterRows(cfg, done) ==
    IF done.kind = "ok" THEN DbOutcome(Ok, cfg, done.files)
    ELSE DbOutcome(Error("InternalError"), cfg, done.files)

\* Lines 1410-1420, from row i on: the file of every row gets
\* frontmatter[key] = value.
RECURSIVE SetKeyInRows(_, _, _, _, _)
SetKeyInRows(fls, rows, i, key, value) ==
    IF i > Len(rows) THEN LoopDone(fls)
    ELSE LET fileName == RowFile(fls, rows[i])
         IN  IF ~IsSome(fileName) THEN LoopThrew(fls)
             ELSE LET file == fls[Get(fileName)]
                      frontmatter == parseMarkdownWithFrontmatter(file).frontmatter
                  IN  SetKeyInRows(With(fls, Get(fileName),
                                        RewriteRow(file, With(frontmatter, key, value))),
                                   rows, i + 1, key, value)

\* config.columns.push(column)
ColumnAdded(cf, column) == Some([cf EXCEPT !.columns = Append(@, column)])

addColumn(cfg, fls, order, column, defaultValue) ==
    IF ~DatabaseExists(cfg) THEN NotFound(cfg, fls)
    ELSE LET cf == Get(cfg) IN
         IF HasColumn(cf.columns, column.id)
         THEN DbOutcome(Error("InvalidRequest"), cfg, fls)
         ELSE AfterRows(ColumnAdded(cf, column),
                        IF IsSome(defaultValue)
                        THEN SetKeyInRows(fls, getDatabaseRows(fls, order), 1,
                                          column.id, Get(defaultValue))
                        ELSE LoopDone(fls))

\* { ...column, ...updates }
MergeColumn(column, updates) == updates @@ column

\* updates.id && updates.id !== columnId
RenamesId(updates, columnId) ==
    /\ "id" \in DOMAIN updates
    /\ updates.id # ""
    /\ updates.id # columnId

RenameKey(frontmatter, columnId, newId) ==
    Without(With(frontmatter, newId, frontmatter[columnId]), columnId)

\* Lines 1458-1470, from row i on: the file of a row is rewritten with the
\* key renamed when it has the key columnId, and is not written otherwise.
RECURSIVE RenameKeyInRows(_, _, _, _, _)
RenameKeyInRows(fls, rows, i, columnId, newId) ==
    IF i > Len(rows) THEN LoopDone(fls)
    ELSE LET fileName == RowFile(fls, rows[i])
         IN  IF ~IsSome(fileName) THEN LoopThrew(fls)
             ELSE LET file == fls[Get(fileName)]
                      frontmatter == parseMarkdownWithFrontmatter(file).frontmatter
                  IN  RenameKeyInRows(
                          IF columnId \in DOMAIN frontmatter
                          THEN With(fls, Get(fileName),
                                    RewriteRow(file, RenameKey(frontmatter, columnId, newId)))
                          ELSE fls,
                          rows, i + 1, columnId, newId)

\* config.columns[columnIndex] = { ...config.columns[columnIndex], ...updates }
ColumnUpdated(cf, columnIndex, updates) ==
    Some([cf EXCEPT !.columns[columnIndex + 1] = MergeColumn(@, updates)])

updateColumn(cfg, fls, order, columnId, updates) ==
    IF ~DatabaseExists(cfg) THEN NotFound(cfg, fls)
    ELSE LET cf == Get(cfg)
             columnIndex == FindColumnIndex(cf.columns, columnId)
         IN  IF columnIndex = -1
             THEN DbOutcome(Error("InvalidRequest"), cfg, fls)
             ELSE AfterRows(ColumnUpdated(cf, columnIndex, updates),
                            IF RenamesId(updates, columnId)
                            THEN RenameKeyInRows(fls, getDatabaseRows(fls, order), 1,
                                                 columnId, updates.id)
                            ELSE LoopDone(fls))

\* columns.splice(index, 1), index counted from 0
Splice(columns, index) ==
    SubSeq(columns, 1, index) \o SubSeq(columns, index + 2, Len(columns))

\* The view without the filters and sorts on columnId.
StripColumn(view, columnId) ==
    [view EXCEPT !.filters = SelectSeq(@, LAMBDA f : f.column # columnId),
                 !.sorts = SelectSeq(@, LAMBDA s : s.column # columnId)]

\* Lines 1516-1526, from row i on: the file of a row is rewritten without
\* the key columnId when it has it, and is not written otherwise.
RECURSIVE DeleteKeyInRows(_, _, _, _)
DeleteKeyInRows(fls, rows, i, columnId) ==
    IF i > Len(rows) THEN LoopDone(fls)
    ELSE LET fileName == RowFile(fls, rows[i])
         IN  IF ~IsSome(fileName) THEN LoopThrew(fls)
             ELSE LET file == fls[Get(fileName)]
                      frontmatter == parseMarkdownWithFrontmatter(file).frontmatter
                  IN  DeleteKeyInRows(
                          IF columnId \in DOMAIN frontmatter
                          THEN With(fls, Get(fileName),
                                    RewriteRow(file, Without(frontmatter, columnId)))
                          ELSE fls,
                          rows, i + 1, columnId)

\* Lines 1503-1510: the column spliced out, the views stripped of it.
ColumnDeleted(cf, columnIndex, columnId) ==
    Some([cf EXCEPT !.columns = Splice(@, columnIndex),
                    !.views = [i \in 1..Len(@) |-> StripColumn(@[i], columnId)]])

\* deleteColumn that refuses only a column it does not find.
DeleteAnyColumn(cfg, fls, order, columnId) ==
    IF ~DatabaseExists(cfg) THEN NotFound(cfg, fls)
    ELSE LET cf == Get(cfg)
             columnIndex == FindColumnIndex(cf.columns, columnId)
         IN  IF columnIndex = -1
             THEN DbOutcome(Error("InvalidRequest"), cfg, fls)
             ELSE AfterRows(ColumnDeleted(cf, columnIndex, columnId),
                            DeleteKeyInRows(fls, getDatabaseRows(fls, order), 1, columnId))

deleteColumn(cfg, fls, order, columnId) ==
    IF ~DatabaseExists(cfg) THEN NotFound(cfg, fls)
    ELSE LET cf == Get(cfg)
             columnIndex == FindColumnIndex(cf.columns, columnId)
         IN  IF columnId = "title" \/ columnIndex = -1
             THEN DbOutcome(Error("InvalidRequest"), cfg, fls)
             ELSE AfterRows(ColumnDeleted(cf, columnIndex, columnId),
                            DeleteKeyInRows(fls, getDatabaseRows(fls, order), 1, columnId))

\* name.toLowerCase().replace(/\s+/g, '_').replace(/[^a-z0-9_]/g, '')
ViewSlug(name) ==
    Keep(Squash(ToLowerCase(name), WhiteSpace, "_"), Lower \cup Digit \cup {"_"})

\* createView that appends the view whatever the ids of the stored views.
AppendView(cfg, fls, view) ==
    IF ~DatabaseExists(cfg) THEN NotFound(cfg, fls)
    ELSE LET cf == Get(cfg)
             viewId == IF view.id # <<>> THEN view.id ELSE ViewSlug(view.name)
             newView == [id |-> viewId, name |-> view.name,
                         type |-> IF view.type # "" THEN view.type ELSE "table",
                         filters |-> view.filters, sorts |-> view.sorts]
         IN  DbOutcome(Ok, Some([cf EXCEPT !.views = Append(@, newView)]), fls)

\* view is [id, name, type, filters, sorts]; an absent id or type is empty.
\* The grouping options of a view are left out.
createView(cfg, fls, view) ==
    IF ~DatabaseExists(cfg) THEN NotFound(cfg, fls)
    ELSE LET cf == Get(cfg)
             viewId == IF view.id # <<>> THEN view.id ELSE ViewSlug(view.name)
             newView == [id |-> viewId, name |-> view.name,
                         type |-> IF view.type # "" THEN view.type ELSE "table",
                         filters |-> view.filters, sorts |-> view.sorts]
         IN  IF \E i \in 1..Len(cf.views) : cf.views[i].id = viewId
             THEN DbOutcome(Error("InvalidRequest"), cfg, fls)
             ELSE DbOutcome(Ok, Some([cf EXCEPT !.views = Append(@, newView)]), fls)

----------------------------------------------------------------------------
(* The database operations as a state machine: one action per operation,   *)
(* each a whole call on the one database folder.                           *)

MaxDbOps == 4   \* calls made on the database folder in one behaviour
MaxRows == 3    \* row files in the database folder

TextColumn(id) == [id |-> id, name |-> id, type |-> "text"]

\* The columns argument of createDatabase: absent, or a list of its own.
ColumnLists == {<<>>, <<TextColumn("prio")>>}

NewColumns == {TextColumn("prio"), TextColumn("status")}
DefaultValues == {None, Some(Str(<<"x">>))}

UpdatedColumnIds == {"title", "status", "tags", "prio"}
ColumnUpdates == {[id |-> "status"], [id |-> "title"], [name |-> "Label"]}

DeletedColumnIds == {"title", "status", "prio"}

TaskRow ==
    [title |-> <<"M", "y", " ", "T", "a", "s", "k">>,
     fields |-> [status |-> Str(<<"T", "o", "d", "o">>)],
     content |-> <<>>]
BareRow == [title |-> <<>>, fields |-> EmptyMap, content |-> <<"b">>]
TaskPath == FilePath(generateSafeFileName(TaskRow.title))
\* A row with a property filePath of its own: the path of the task row.
LinkedRow ==
    [title |-> <<"L", "i", "n", "k">>,
     fields |-> [filePath |-> Str(TaskPath), status |-> Str(<<"T", "o", "d", "o">>)],
     content |-> <<>>]
RowBatches ==
    {<<TaskRow>>, <<BareRow>>, <<TaskRow, TaskRow>>, <<TaskRow, BareRow>>,
     <<TaskRow, LinkedRow>>}

StatusView ==
    [id |-> <<>>, name |-> <<"B", "y", " ", "S", "t", "a", "t", "u", "s">>, type |-> "",
     filters |-> << [column |-> "status", operator |-> "equals",
                     value |-> Str(<<"T", "o", "d", "o">>)],
                    [column |-> "tags", operator |-> "isNotEmpty", value |-> Str(<<>>)] >>,
     sorts |-> << [column |-> "prio", direction |-> "asc"],
                  [column |-> "status", direction |-> "desc"] >>]
PlainView == [id |-> DefaultViewId, name |-> <<"A", "l", "l">>, type |-> "list",
              filters |-> <<>>, sorts |-> <<>>]
TitleView ==
    [id |-> <<>>, name |-> <<"B", "y", " ", "T", "i", "t", "l", "e">>, type |-> "",
     filters |-> << [column |-> "title", operator |-> "contains", value |-> Str(<<"t">>)],
                    [column |-> "status", operator |-> "equals",
                     value |-> Str(<<"T", "o", "d", "o">>)] >>,
     sorts |-> << [column |-> "title", direction |-> "desc"],
                  [column |-> "status", direction |-> "desc"] >>]
NewViews == {StatusView, PlainView, TitleView}

\* A call answered with the outcome out: the folder is left as the handler
\* left it and the call is recorded with its result.
DbStep(call, out) ==
    /\ config' = out.config
    /\ files' = out.files
    /\ dbLast' = [call |-> call, result |-> out.result]
    /\ dbOps' = dbOps + 1
    /\ UNCHANGED <<editVars, serverVars>>

CreateDatabase ==
    /\ dbOps < MaxDbOps
    /\ \E columns \in ColumnLists :
        DbStep([op |-> "createDatabase", columns |-> columns],
               createDatabase(config, files, columns))

AddRows ==
    /\ dbOps < MaxDbOps
    /\ \E rows \in RowBatches :
          /\ Cardinality(DOMAIN files) + Len(rows) <= MaxRows
          /\ DbStep([op |-> "addRows", rows |-> rows], addRows(config, files, rows))

AddColumn ==
    /\ dbOps < MaxDbOps
    /\ \E column \in NewColumns, defaultValue \in DefaultValues,
          order \in DirectoryOrders(files) :
        DbStep([op |-> "addColumn", column |-> column, defaultValue |-> defaultValue,
                order |-> order],
               addColumn(config, files, order, column, defaultValue))

UpdateColumn ==
    /\ dbOps < MaxDbOps
    /\ \E columnId \in UpdatedColumnIds, updates \in ColumnUpdates,
          order \in DirectoryOrders(files) :
        DbStep([op |-> "updateColumn", columnId |-> columnId, updates |-> updates,
                order |-> order],
               updateColumn(config, files, order, columnId, updates))

DeleteColumn ==
    /\ dbOps < MaxDbOps
    /\ \E columnId \in DeletedColumnIds, order \in DirectoryOrders(files) :
        DbStep([op |-> "deleteColumn", columnId |-> columnId, order |-> order],
               deleteColumn(config, files, order, columnId))

CreateView ==
    /\ dbOps < MaxDbOps
    /\ \E view \in NewViews : DbStep([op |-> "createView", view |-> view], createView(config, files, view))

RowUpdates ==
    {[title |-> TaskRow.title, fields |-> EmptyMap, content |-> <<>>],
     [title |-> <<"N", "e", "w">>, fields |-> EmptyMap, content |-> <<>>],
     [title |-> <<>>, fields |-> [status |-> Str(<<"D", "o", "n", "e">>)], content |-> <<>>]}

RowCriteria ==
    {[ids |-> Some(<<TaskPath>>), where |-> None],
     [ids |-> None, where |-> Some([status |-> Str(<<"T", "o", "d", "o">>)])],
     [ids |-> None, where |-> None]}

NoOptions ==
    [search |-> <<>>, filters |-> None, sort |-> None, viewId |-> <<>>, limit |-> None]

UpdateRows ==
    /\ dbOps < MaxDbOps
    /\ \E updates \in RowUpdates, options \in RowCriteria, order \in DirectoryOrders(files) :
          DbStep([op |-> "updateRows", updates |-> updates, options |-> options,
                  order |-> order],
                 updateRows(config, files, order, updates, options))

DeleteRows ==
    /\ dbOps < MaxDbOps
    /\ \E options \in RowCriteria, order \in DirectoryOrders(files) :
          DbStep([op |-> "deleteRows", options |-> options, order |-> order],
                 deleteRows(config, files, order, options))

\* readDatabase without options: every row, as the directory lists them.
ReadDatabase ==
    /\ dbOps < MaxDbOps
    /\ \E order \in DirectoryOrders(files) :
          DbStep([op |-> "readDatabase", options |-> NoOptions, order |-> order],
                 readDatabase(config, files, order, NoOptions))

\* The result recorded for a call whose process ended before it returned.
Interrupted == [kind |-> "interrupted"]

\* deleteColumn cut short by the end of its process: database.json was
\* saved (line 1512) and the loop of lines 1516-1526 got through the first
\* rows only, at least one row not reached.
InterruptedDeleteColumn ==
    /\ dbOps < MaxDbOps
    /\ DatabaseExists(config)
    /\ \E columnId \in DeletedColumnIds, order \in DirectoryOrders(files) :
          LET cf == Get(config)
              columnIndex == FindColumnIndex(cf.columns, columnId)
              rows == getDatabaseRows(files, order)
          IN  /\ columnId # "title"
              /\ columnIndex # -1
              /\ \E rewritten \in 0..(Len(rows) - 1) :
                    LET done == DeleteKeyInRows(files, SubSeq(rows, 1, rewritten), 1,
                                                columnId)
                    IN  /\ done.kind = "ok"
                        /\ config' = ColumnDeleted(cf, columnIndex, columnId)
                        /\ files' = done.files
              /\ dbLast' = [call |-> [op |-> "deleteColumn", columnId |-> columnId,
                                     order |-> order],
                           result |-> Interrupted]
    /\ dbOps' = dbOps + 1
    /\ UNCHANGED <<editVars, serverVars>>

\* addColumn with a default value cut short by the end of its process:
\* database.json was saved (line 1404) and the loop of lines 1410-1420 got
\* through the first rows only, at least one row not reached.
InterruptedAddColumn ==
    /\ dbOps < MaxDbOps
    /\ DatabaseExists(config)
    /\ \E column \in NewColumns, defaultValue \in DefaultValues \ {None},
          order \in DirectoryOrders(files) :
          LET cf == Get(config)
              rows == getDatabaseRows(files, order)
          IN  /\ ~HasColumn(cf.columns, column.id)
              /\ \E rewritten \in 0..(Len(rows) - 1) :
                    LET done == SetKeyInRows(files, SubSeq(rows, 1, rewritten), 1,
                                             column.id, Get(defaultValue))
                    IN  /\ done.kind = "ok"
                        /\ config' = ColumnAdded(cf, column)
                        /\ files' = done.files
              /\ dbLast' = [call |-> [op |-> "addColumn", column |-> column,
                                     defaultValue |-> defaultValue, order |-> order],
                           result |-> Interrupted]
    /\ dbOps' = dbOps + 1
    /\ UNCHANGED <<editVars, serverVars>>

\* The options of a readDatabase call.
Searches == {<<>>, <<"m", "d">>, <<"T", "O", "D", "O">>, <<"b">>}
FilterLists ==
    {None, Some(<<>>),
     Some(<< [column |-> "status", operator |-> "notEquals",
              value |-> Str(<<"T", "o", "d", "o">>)] >>)}
Sorts == {None, Some([column |-> "title", direction |-> "asc"])}
ViewIds == {<<>>, ViewSlug(StatusView.name), ViewSlug(TitleView.name)}
Limits == {None, Some(0), Some(1)}

\* A search goes with no other option; filters, sort, view and limit combine.
QueryOptions ==
    {[NoOptions EXCEPT !.search = search] : search \in Searches} \cup
    {[search |-> <<>>, filters |-> filters, sort |-> sort, viewId |-> viewId,
      limit |-> limit] :
        filters \in FilterLists, sort \in Sorts, viewId \in ViewIds, limit \in Limits}

\* readDatabase with options, the last call of a behaviour.
QueryDatabase ==
    /\ dbOps < MaxDbOps
    /\ \E options \in QueryOptions, order \in DirectoryOrders(files) :
          LET out == readDatabase(config, files, order, options)
          IN  /\ dbLast' = [call |-> [op |-> "readDatabase", options |-> options,
                                     order |-> order],
                           result |-> out.result]
              /\ config' = out.config
              /\ files' = out.files
    /\ dbOps' = MaxDbOps
    /\ UNCHANGED <<editVars, serverVars>>

\* Rows with boolean and text properties, and views that store one filter.
DoneRow ==
    [title |-> <<"A">>,
     fields |-> [done |-> Bool(TRUE), status |-> Str(<<"T", "o", "d", "o">>)],
     content |-> <<>>]
OpenRow ==
    [title |-> <<"B">>, fields |-> [done |-> Bool(FALSE), status |-> Str(<<>>)],
     content |-> <<>>]
CountRow ==
    [title |-> <<"C">>, fields |-> [status |-> Str(<<"7">>)], content |-> <<>>]
TypedBatches == {<<DoneRow>>, <<DoneRow, OpenRow>>, <<DoneRow, OpenRow, CountRow>>}

FilterOperators ==
    {"equals", "notEquals", "contains", "notContains", "greaterThan", "lessThan",
     "isEmpty", "isNotEmpty"}
FilterValues == {Str(<<"T", "o", "d", "o">>), Str(<<"t", "r", "u", "e">>), Bool(TRUE), Str(<<"1">>)}
FilterViewId == <<"v">>
FilterViews ==
    {[id |-> FilterViewId, name |-> <<"V">>, type |-> "",
      filters |-> << [column |-> column, operator |-> operator, value |-> value] >>,
      sorts |-> <<>>] :
        column \in {"status", "done"}, operator \in FilterOperators, value \in FilterValues}

AddTypedRows ==
    /\ dbOps < MaxDbOps
    /\ \E rows \in TypedBatches :
          /\ Cardinality(DOMAIN files) + Len(rows) <= MaxRows
          /\ DbStep([op |-> "addRows", rows |-> rows], addRows(config, files, rows))

CreateFilterView ==
    /\ dbOps < MaxDbOps
    /\ \E view \in FilterViews :
          DbStep([op |-> "createView", view |-> view], createView(config, files, view))

\* readDatabase with the viewId of the filter view and no other option, the
\* last call of a behaviour.
ReadView ==
    /\ dbOps < MaxDbOps
    /\ \E order \in DirectoryOrders(files) :
          LET options == [NoOptions EXCEPT !.viewId = FilterViewId]
              out == readDatabase(config, files, order, options)
          IN  /\ dbLast' = [call |-> [op |-> "readDatabase", options |-> options,
                                     order |-> order],
                           result |-> out.result]
              /\ config' = out.config
              /\ files' = out.files
    /\ dbOps' = MaxDbOps
    /\ UNCHANGED <<editVars, serverVars>>

InitDb ==
    /\ doc = <<>>
    /\ tmp = None
    /\ pc = "idle"
    /\ cur = Idle
    /\ last = Idle
    /\ config = None
    /\ files = NoFiles
    /\ dbLast = NoDbCall
    /\ dbOps = 0
    /\ inflight = <<>>
    /\ temps = <<>>

NextDb ==
    \/ CreateDatabase
    \/ AddRows
    \/ AddColumn
    \/ UpdateColumn
    \/ DeleteColumn
    \/ CreateView

SpecDb == InitDb /\ [][NextDb]_vars

\* The database with its rows read, updated and deleted.
NextRows ==
    \/ CreateDatabase
    \/ AddRows
    \/ UpdateColumn
    \/ UpdateRows
    \/ DeleteRows
    \/ ReadDatabase

SpecRows == InitDb /\ [][NextRows]_vars

\* The database with column operations that may be interrupted.
NextInterrupted ==
    \/ CreateDatabase
    \/ AddRows
    \/ AddColumn
    \/ DeleteColumn
    \/ InterruptedAddColumn
    \/ InterruptedDeleteColumn

SpecInterrupted == InitDb /\ [][NextInterrupted]_vars

\* The database queried: rows and views are added, then the rows are read.
NextQuery ==
    \/ CreateDatabase
    \/ AddRows
    \/ CreateView
    \/ QueryDatabase

SpecQuery == InitDb /\ [][NextQuery]_vars

\* The database with typed rows and a view of one filter.
NextViews ==
    \/ CreateDatabase
    \/ AddTypedRows
    \/ CreateFilterView
    \/ ReadView

SpecViews == InitDb /\ [][NextViews]_vars


----------------------------------------------------------------------------
(* Claims about the editor.                                                *)

\* The document after a handler result r on text c, when no file operation fails.
DocAfter(r, c) == IF r.kind = "ok" THEN r.newContent ELSE c

\* The document is whole: the original while a call is in flight, the new
\* text exactly when the call returned its success result.
C1_DocumentWhole ==
    /\ pc # "idle" => doc = cur.content
    /\ pc \in {"idle", "write"} => tmp = None
    /\ (pc = "idle" /\ last # Idle) =>
          /\ doc = DocAfter(last.result, last.content)
          /\ doc \in {last.content} \cup
                     (IF last.result.kind = "ok" THEN {last.result.newContent} ELSE {})

\* A failed write or rename ends in InternalError with the temp file gone.
C1_FailureCleansUp ==
    pc = "cleanup" =>
        /\ pc' = "idle"
        /\ last'.result = Error("InternalError")
        /\ doc' = cur.content
        /\ tmp' = None

C2_AfterB ==
    (/\ last.call.op = "insert"
     /\ last.content = <<"A", "\n", "B", "\n", "C">>
     /\ last.call.position = [t |-> "num", n |-> 3])
    => /\ last.call.expectedLineBefore = Some(<<"B">>) => last.result.kind = "ok"
       /\ last.call.expectedLineBefore = Some(<<"Z">>) =>
              /\ last.result.kind = "fail"
              /\ last.result.suggestedPositions = None
              /\ doc = last.content

LiteralFirst(content, searchText, replaceText) ==
    LET at == IndexOf(content, searchText, 0)
    IN  SubSeq(content, 1, at) \o replaceText
            \o SubSeq(content, at + Len(searchText) + 1, Len(content))

RECURSIVE LiteralAll(_, _, _)
LiteralAll(content, searchText, replaceText) ==
    LET at == IndexOf(content, searchText, 0)
    IN  IF at = -1 THEN content
        ELSE SubSeq(content, 1, at) \o replaceText
                \o LiteralAll(SubSeq(content, at + Len(searchText) + 1, Len(content)),
                              searchText, replaceText)

\* C4 (as claimed): when searchText occurs in the document and differs from
\* replaceText, all=false leaves the document with exactly its first
\* occurrence replaced by replaceText and all=true with every occurrence
\* replaced.
C4_ReplaceFirstOrAll ==
    (/\ last.call.op = "replace"
     /\ Len(last.call.searchText) > 0
     /\ Includes(last.content, last.call.searchText)
     /\ last.call.searchText # last.call.replaceText)
    => doc = IF last.call.all
             THEN LiteralAll(last.content, last.call.searchText, last.call.replaceText)
             ELSE LiteralFirst(last.content, last.call.searchText, last.call.replaceText)

\* C5 (as claimed): a replace whose replaceText equals its searchText does
\* not succeed, on any document, and writes neither the document nor a temp
\* file.
C5_NoOpReplace ==
    /\ (pc # "idle" /\ cur.call.op = "replace") =>
            cur.call.searchText # cur.call.replaceText
    /\ (last.call.op = "replace" /\ last.call.searchText = last.call.replaceText) =>
            /\ last.result.kind # "ok"
            /\ Len(last.call.searchText) > 0 => last.result.kind = "fail"
            /\ doc = last.content
            /\ tmp = None

\* C6 (as claimed): an insert at an integer position past the end of the
\* document leaves the same document as the same insert at "end".
C6_PastEndIsEnd ==
    (/\ last.call.op = "insert"
     /\ last.call.position.t = "num"
     /\ last.call.position.n > Len(last.content))
    => doc = DocAfter(insertContent(last.content, [t |-> "end"], last.call.text,
                                    last.call.expectedLineBefore),
                      last.content)

\* C6 (amended): an insert at an integer position past the end of the
\* document does what the same insert at the integer position len(doc) does:
\* the same result, and on success the document followed by the text, with
\* no newline added.
C6_PastEndIsLength ==
    (/\ last.call.op = "insert"
     /\ last.call.position.t = "num"
     /\ last.call.position.n > Len(last.content))
    => /\ last.result = insertContent(last.content,
                                      [t |-> "num", n |-> Len(last.content)],
                                      last.call.text, last.call.expectedLineBefore)
       /\ last.result.kind = "ok" =>
             /\ doc = last.content \o last.call.text
             /\ last.result.insertion.position = Some(Len(last.content))
       /\ last.result.kind # "ok" => doc = last.content

\* An insert far past the end of a document of several lines has succeeded.
C6_Witness ==
    /\ last.call.op = "insert"
    /\ last.call.position.t = "num"
    /\ last.call.position.n = Len(last.content) + FarOffset
    /\ Len(Split(last.content, "\n")) > 1
    /\ IsSome(last.call.expectedLineBefore)
    /\ last.result.kind = "ok"
    /\ doc = last.content \o last.call.text

\* The suggestions of a result of a given type.
OfType(suggestions, type) ==
    {k \in 1..Len(suggestions) : suggestions[k].type = type}

\* C7 (as claimed): a replace whose searchText is absent fails, leaves the
\* document unchanged and returns at most 3 candidates, staged: key-phrase
\* candidates only when no partial match was found, a first-line candidate
\* only when neither a partial match nor a key phrase was found.
C7_StagedSuggestions ==
    (/\ last.call.op = "replace"
     /\ Len(last.call.searchText) > 0
     /\ ~Includes(last.content, last.call.searchText))
    => /\ last.result.kind = "fail"
       /\ doc = last.content
       /\ IsSome(last.result.suggestions) =>
             LET sg == Get(last.result.suggestions)
             IN  /\ Len(sg) <= 3
                 /\ OfType(sg, "keyPhrase") # {} => OfType(sg, "partial") = {}
                 /\ OfType(sg, "firstLine") # {} =>
                        OfType(sg, "partial") = {} /\ OfType(sg, "keyPhrase") = {}


----------------------------------------------------------------------------
(* Claims about the database.                                              *)

\* C8 (as claimed): in every state reached by createDatabase, addColumn,
\* updateColumn and deleteColumn calls, the column list of the database has
\* exactly one column whose id is "title".
C8_OneTitleColumn ==
    IsSome(config) =>
        LET columns == Get(config).columns
        IN  Cardinality({i \in 1..Len(columns) : columns[i].id = "title"}) = 1

\* No two columns of the database have the same id.
C9_IdsDistinct ==
    IsSome(config) =>
        LET columns == Get(config).columns
        IN  \A i, j \in 1..Len(columns) : columns[i].id = columns[j].id => i = j

\* addColumn with the id of an existing column fails and leaves the config
\* as it was.
C9_DuplicateRejected ==
    (/\ dbLast'.call.op = "addColumn"
     /\ IsSome(config)
     /\ HasColumn(Get(config).columns, dbLast'.call.column.id))
    => /\ dbLast'.result.kind = "error"
       /\ config' = config

\* C9 (as claimed): in every state reached by createDatabase, addColumn,
\* updateColumn and deleteColumn calls no two columns have the same id, and
\* addColumn with an id that already exists fails and leaves the config
\* unchanged.
C9_UniqueColumnIds == []C9_IdsDistinct /\ [][C9_DuplicateRejected]_vars

\* The effect claimed for a successful deleteColumn(c), c not "title".
C10_Cascade ==
    (/\ dbLast'.call.op = "deleteColumn"
     /\ dbLast'.result.kind = "ok"
     /\ dbLast'.call.columnId # "title")
    => LET c == dbLast'.call.columnId
           before == Get(config)
           after == Get(config')
       IN  /\ ~HasColumn(after.columns, c)
           /\ after.columns = SelectSeq(before.columns, LAMBDA col : col.id # c)
           /\ Len(after.views) = Len(before.views)
           /\ \A i \in 1..Len(after.views) :
                 /\ after.views[i].filters =
                        SelectSeq(before.views[i].filters, LAMBDA f : f.column # c)
                 /\ after.views[i].sorts =
                        SelectSeq(before.views[i].sorts, LAMBDA s : s.column # c)
           /\ DOMAIN files' = DOMAIN files
           /\ \A name \in DOMAIN files :
                 /\ c \notin DOMAIN files'[name].frontmatter
                 /\ files'[name].frontmatter = Without(files[name].frontmatter, c)

\* C10 (as claimed): after a successful deleteColumn(c), c not "title", c is
\* not among the columns, no view has a filter or a sort on c, no row file
\* has the front-matter key c, and every other column, filter, sort and
\* front-matter key is as it was.
C10_DeleteColumnCascades == [][C10_Cascade]_vars

\* The rows an updateRows or deleteRows call recorded in dbLast' addressed,
\* read from the directory as it was before the call.
AddressedRows ==
    SelectedRows(getDatabaseRows(files, dbLast'.call.order), dbLast'.call.options)

\* The effect claimed for a successful updateRows on an addressed row whose
\* title is not the new title.
C11_Renamed ==
    (dbLast'.call.op = "updateRows" /\ dbLast'.result.kind = "ok") =>
        LET updates == dbLast'.call.updates
        IN  \A i \in 1..Len(AddressedRows) :
              LET row == AddressedRows[i]
                  old == FileNameOf(files, StringOrEmpty(Prop(row, "filePath")))
                  new == generateSafeFileName(updates.title)
              IN  (/\ updates.title # <<>>
                   /\ Str(updates.title) # Prop(row, "title")
                   /\ IsSome(old))
                  => /\ Get(old) \notin DOMAIN files'
                     /\ new \in DOMAIN files'
                     /\ files'[new] =
                          stringifyMarkdownWithFrontmatter(
                              Without(Without(updates.fields @@ files[Get(old)].frontmatter,
                                              "title"), "_content"),
                              IF updates.content # <<>> THEN updates.content
                              ELSE files[Get(old)].content)
                     /\ Cardinality(DOMAIN files') = Cardinality(DOMAIN files)

\* C11 (as claimed): after a successful updateRows whose updates.title
\* differs from the current title of a selected row, the old file of the row
\* no longer exists and the file named by the slug of the new title exists
\* and holds the merged front matter, without title and _content, and the
\* body; the row is neither lost nor present in two files.
C11_RenameMovesRow == [][C11_Renamed]_vars

\* C12 (as claimed): every row a readDatabase call returns has as id and as
\* file path the path of the file that backs it and as title the name of
\* that file without ".md"; no front-matter key changes them.
C12_RowIdentity ==
    (dbLast.call.op = "readDatabase" /\ dbLast.result.kind = "ok") =>
        LET rows == dbLast.result.rows
        IN  \A i \in 1..Len(rows) :
              LET name == dbLast.call.order[i]
              IN  /\ Prop(rows[i], "id") = Str(DatabasePath \o name)
                  /\ Prop(rows[i], "filePath") = Str(DatabasePath \o name)
                  /\ Prop(rows[i], "title") = Str(SubSeq(name, 1, Len(name) - Len(MdSuffix)))

\* The config with the sorts, or the filters, of the view viewId removed.
WithoutViewSorts(cfg, viewId) ==
    Some([Get(cfg) EXCEPT !.views =
            [k \in DOMAIN @ |-> IF @[k].id = viewId THEN [@[k] EXCEPT !.sorts = <<>>]
                                ELSE @[k]]])

WithoutViewFilters(cfg, viewId) ==
    Some([Get(cfg) EXCEPT !.views =
            [k \in DOMAIN @ |-> IF @[k].id = viewId THEN [@[k] EXCEPT !.filters = <<>>]
                                ELSE @[k]]])

\* The last call is a readDatabase that named a view and succeeded.
ReadWithView ==
    /\ dbLast.call.op = "readDatabase"
    /\ dbLast.result.kind = "ok"
    /\ dbLast.call.options.viewId # <<>>

\* C13: when readDatabase is given an explicit sort and a viewId, the rows
\* are returned in the order of the explicit sort and are the rows returned
\* had the view no sorts; when explicit filters are given, the rows are the
\* rows returned had the view no filters.
C13_ExplicitOptionsWin ==
    ReadWithView =>
        LET call == dbLast.call
            options == call.options
            rows == dbLast.result.rows
        IN  /\ IsSome(options.sort) =>
                 /\ \A i, j \in 1..Len(rows) :
                       i < j => CompareRows(rows[i], rows[j], Get(options.sort)) <= 0
                 /\ rows = readDatabase(WithoutViewSorts(config, options.viewId), files,
                                        call.order, options).result.rows
            /\ IsSome(options.filters) =>
                 rows = readDatabase(WithoutViewFilters(config, options.viewId), files,
                                     call.order, options).result.rows

\* A read with an explicit sort and explicit filters through the view "By
\* Title", whose own filters would drop the untitled row and whose own sort
\* would put it first.
C13_Witness ==
    /\ ReadWithView
    /\ dbLast.call.options.viewId = ViewSlug(TitleView.name)
    /\ IsSome(FindView(Get(config).views, dbLast.call.options.viewId))
    /\ IsSome(dbLast.call.options.sort)
    /\ IsSome(dbLast.call.options.filters)
    /\ dbLast.call.order = <<generateSafeFileName(Untitled), generateSafeFileName(TaskRow.title)>>
    /\ Len(dbLast.result.rows) = 2
    /\ dbLast.result.rows[2].fileName = Str(generateSafeFileName(Untitled))

\* The config with the view viewId cut to its first filter and first sort.
FirstEntriesOnly(cfg, viewId) ==
    Some([Get(cfg) EXCEPT !.views =
            [k \in DOMAIN @ |->
                IF @[k].id = viewId
                THEN [@[k] EXCEPT !.filters = SubSeq(@, 1, Min(1, Len(@))),
                                  !.sorts = SubSeq(@, 1, Min(1, Len(@)))]
                ELSE @[k]]])

Restricting(filters) ==
    SelectSeq(filters, LAMBDA f : f.operator \in {"equals", "contains"})

\* The config with the view viewId cut to its restricting filters and its
\* first sort.
EffectiveEntriesOnly(cfg, viewId) ==
    Some([Get(cfg) EXCEPT !.views =
            [k \in DOMAIN @ |->
                IF @[k].id = viewId
                THEN [@[k] EXCEPT !.filters = Restricting(@),
                                  !.sorts = SubSeq(@, 1, Min(1, Len(@)))]
                ELSE @[k]]])

\* row passes the stored filter f, an equals or a contains.
PassesStored(row, f) ==
    LET text == ToLowerCase(StringOrEmpty(Prop(row, f.column)))
        wanted == ToLowerCase(StringOrEmpty(f.value))
    IN  IF f.operator = "equals" THEN text = wanted ELSE Includes(text, wanted)

HoldsText(name, text) ==
    LET q == ToLowerCase(text)
        frontmatter == files[name].frontmatter
    IN  \/ Includes(ToLowerCase(SubSeq(name, 1, Len(name) - Len(MdSuffix))), q)
        \/ \E key \in DOMAIN frontmatter :
              /\ IsString(frontmatter[key])
              /\ Includes(ToLowerCase(frontmatter[key].v), q)

\* C15 (as claimed): with a search string q, readDatabase returns a row if
\* and only if q is, whatever the case, a substring of the row's title or of
\* a string-valued front-matter field; the file path, the file name and the
\* body preview make no row match.
C15_SearchTitleAndFields ==
    (/\ dbLast.call.op = "readDatabase"
     /\ dbLast.result.kind = "ok"
     /\ dbLast.call.options.search # <<>>) =>
        LET matching == SelectSeq(dbLast.call.order,
                                  LAMBDA name : HoldsText(name, dbLast.call.options.search))
        IN  dbLast.result.rows = getDatabaseRows(files, matching)

\* C16 (as claimed): for every limit N >= 0 given to readDatabase the rows
\* returned are the first min(N, k) rows of the k filtered and sorted rows,
\* never more than N, and totalCount is the number of rows returned.
C16_LimitTruncates ==
    (/\ dbLast.call.op = "readDatabase"
     /\ dbLast.result.kind = "ok"
     /\ IsSome(dbLast.call.options.limit)) =>
        LET N == Get(dbLast.call.options.limit)
            all == QueryRows(config, files, dbLast.call.order, dbLast.call.options)
            rows == dbLast.result.rows
        IN  /\ rows = SubSeq(all, 1, Min(N, Len(all)))
            /\ Len(rows) <= N
            /\ dbLast.result.totalCount = Len(rows)

\* The names addRows may give the file of a row of that title: the slug of
\* the title, or the slug followed by "-" and a counter.
NamesFor(title) ==
    LET fileName == generateSafeFileName(IF title # <<>> THEN title ELSE Untitled)
        stem == SubSeq(fileName, 1, Len(fileName) - Len(MdSuffix))
    IN  {fileName} \cup {stem \o <<"-">> \o Decimal(k) \o MdSuffix : k \in 1..MaxRows}

\* The effect of a successful addRows on the row files.
C17_Added ==
    (dbLast'.call.op = "addRows" /\ dbLast'.result.kind = "ok") =>
        LET rows == dbLast'.call.rows
        IN  /\ Cardinality(DOMAIN files') = Cardinality(DOMAIN files) + Len(rows)
            /\ \A name \in DOMAIN files :
                  name \in DOMAIN files' /\ files'[name] = files[name]
            /\ \A name \in DOMAIN files' \ DOMAIN files :
                  \E i \in 1..Len(rows) : name \in NamesFor(rows[i].title)

\* C17: addRows never overwrites a row file: a successful addRows of n rows
\* raises the number of row files by exactly n, each new file named by the
\* slug of a title of the batch or by that slug and a counter, and leaves
\* every earlier row file as it was; so does the same batch added again.
C17_AddRowsNeverOverwrites == [][C17_Added]_vars

\* The batch of one task row added a second time: its file got a counter.
C17_Witness ==
    /\ dbLast.call.op = "addRows"
    /\ dbLast.result.kind = "ok"
    /\ dbLast.call.rows = <<TaskRow>>
    /\ DOMAIN files = {generateSafeFileName(TaskRow.title),
                       <<"m", "y", "-", "t", "a", "s", "k", "-", "1">> \o MdSuffix}

\* The effect claimed for a successful updateColumn that renames the id of
\* a column.
C18_Renamed ==
    (/\ dbLast'.call.op = "updateColumn"
     /\ dbLast'.result.kind = "ok"
     /\ "id" \in DOMAIN dbLast'.call.updates
     /\ dbLast'.call.updates.id # dbLast'.call.columnId) =>
        LET old == dbLast'.call.columnId
            new == dbLast'.call.updates.id
        IN  /\ DOMAIN files' = DOMAIN files
            /\ \A name \in DOMAIN files :
                  LET before == files[name].frontmatter
                      after == files'[name].frontmatter
                  IN  IF old \in DOMAIN before
                      THEN /\ new \in DOMAIN after
                           /\ after[new] = before[old]
                           /\ old \notin DOMAIN after
                           /\ DOMAIN after \ {new} = DOMAIN before \ {old, new}
                           /\ \A key \in DOMAIN before \ {old, new} :
                                 after[key] = before[key]
                      ELSE files'[name] = files[name]

\* C18 (as claimed): after updateColumn renames a column id from old to new,
\* every row that had the front-matter key old has the key new with the
\* value old had and no key old, rows without the key old are not
\* rewritten, and every other front-matter key and value is as it was.
C18_RenameCarriesValues == [][C18_Renamed]_vars

\* The step issues again the deleteColumn that was interrupted.
RetriesDeleteColumn ==
    /\ dbLast.result = Interrupted
    /\ dbLast.call.op = "deleteColumn"
    /\ dbLast'.call.op = "deleteColumn"
    /\ dbLast'.call.columnId = dbLast.call.columnId
    /\ dbLast'.result # Interrupted

\* The step issues again the addColumn that was interrupted.
RetriesAddColumn ==
    /\ dbLast.result = Interrupted
    /\ dbLast.call.op = "addColumn"
    /\ dbLast'.call.op = "addColumn"
    /\ dbLast'.call.column = dbLast.call.column
    /\ dbLast'.call.defaultValue = dbLast.call.defaultValue
    /\ dbLast'.result # Interrupted

\* The same call issued after the interruption succeeds and leaves the rows
\* as the uninterrupted call would have.
C19_Retried ==
    /\ RetriesDeleteColumn =>
          /\ dbLast'.result.kind = "ok"
          /\ \A name \in DOMAIN files' :
                dbLast'.call.columnId \notin DOMAIN files'[name].frontmatter
    /\ RetriesAddColumn =>
          /\ dbLast'.result.kind = "ok"
          /\ \A name \in DOMAIN files' :
                /\ dbLast'.call.column.id \in DOMAIN files'[name].frontmatter
                /\ files'[name].frontmatter[dbLast'.call.column.id] =
                      Get(dbLast'.call.defaultValue)

\* C19 (as claimed): when a deleteColumn, or an addColumn with a default
\* value, was interrupted after its config write and before all row files
\* were rewritten, the same call issued again re-applies the change to the
\* rows and the database reaches the state of an uninterrupted run: the
\* column key absent from every row, respectively the default in every row.
C19_RetryCompletes == [][C19_Retried]_vars

\* The arguments of a recorded call, without the order in which the
\* directory happened to be listed.
Arguments(call) == [key \in DOMAIN call \ {"order"} |-> call[key]]

\* The step issues again, with the same arguments, the call that has just
\* succeeded, and the call is not an addRows.
RetriesLastCall ==
    /\ dbLast.result.kind = "ok"
    /\ dbLast.call.op # "addRows"
    /\ Arguments(dbLast'.call) = Arguments(dbLast.call)

\* C20 (as claimed): every operation except addRows is safe to retry: the
\* call issued again after it succeeded, updateRows and deleteRows with the
\* same where map or the current ids, leaves the row files, their contents
\* and the config as the first call left them; a title update repeated on
\* the renamed row keeps the row.
C20_RetrySafe == [][RetriesLastCall => (files' = files /\ config' = config)]_vars

\* The handlers that have read the document and not yet returned.
Running == {r \in DOMAIN inflight : inflight[r].pc # "done"}

\* Both requests returned success.
BothSucceeded ==
    /\ DOMAIN inflight = Requests
    /\ \A r \in Requests : inflight[r].pc = "done" /\ inflight[r].result.kind = "ok"

\* The document is what the two edits give when one is made after the other.
ReflectsBoth ==
    \E first, second \in Requests :
        /\ first # second
        /\ LET one == Handler(inflight[first].call, inflight[first].content)
               two == Handler(inflight[second].call, one.newContent)
           IN  doc = two.newContent

\* A handler renames over the document it read.
RenamesOverItsRead ==
    \A r \in Requests :
        (/\ r \in DOMAIN inflight
         /\ inflight[r].pc = "rename"
         /\ inflight'[r].pc = "done"
         /\ doc' # doc) => doc = inflight[r].content

\* C21 (as claimed): tool invocations do not interleave: at most one
\* handler is between its start and its return, no write of one request
\* falls between the other's read of the document and its rename, and when
\* two edits of the document both succeeded the document reflects both.
C21_NoLostUpdate ==
    /\ [](Cardinality(Running) <= 1)
    /\ [][RenamesOverItsRead]_vars
    /\ [](BothSucceeded => ReflectsBoth)

----------------------------------------------------------------------------
(* C22: calls with missing or malformed required input.                    *)

\* The malformed inputs the claim names, for the edit handlers: an empty
\* searchText, and a delete range outside 0 <= startPos < endPos <= length.
Malformed(call, content) ==
    \/ call.op = "replace" /\ Len(call.searchText) = 0
    \/ /\ call.op = "delete"
       /\ ~(0 <= call.startPos /\ call.startPos < call.endPos
                               /\ call.endPos <= Len(content))

\* C22 (as claimed): every completed call whose required input is malformed
\* was rejected with an InvalidParams error and left the document as it
\* was.  The code rejects an invalid delete range with a plain Error, thrown
\* after the document was read (its length is part of the check), and the
\* handler's catch turns it into an InternalError.
C22_MalformedIsInvalidParams ==
    (last.call # NoCall /\ Malformed(last.call, last.content))
        => /\ last.result = Error("InvalidParams")
           /\ doc = last.content

----------------------------------------------------------------------------
(* C23: calls that name something that does not exist.                     *)

\* The workspace named by a call exists: it is the path of the workspace
\* folder, or the id or name of an entry of workspaces.json.
WorkspaceExists(name) == name \in {WorkspacePath, WorkspaceId, WorkspaceName}

\* The document named by a call exists in the workspace: the name is the
\* id, name, file name (with or without .md) or path of a registered document.
DocumentExists(name) ==
    name \in {<<"d", "1">>, <<"A">>, <<"a">>, DocumentFile, DocumentsFolder \o DocumentFile}

NamesMissing(call) ==
    /\ Len(call.workspace) > 0
    /\ Len(call.documentId) > 0
    /\ ~(WorkspaceExists(call.workspace) /\ DocumentExists(call.documentId))

\* C23 (as claimed): a call that names a workspace or document that does
\* not exist ends in an InvalidRequest error, never in an InternalError.
\* The code throws a plain Error for both, which the handler wraps as
\* InternalError.
C23_NotFoundIsInvalidRequest ==
    (last.call # NoCall /\ last.call.op = "addressed")
        => /\ NamesMissing(last.call) => last.result = Error("InvalidRequest")
           /\ last.result # Error("InternalError")

----------------------------------------------------------------------------
(* C24: the title column cannot be deleted.                                *)

\* The step is a deleteColumn call on the column "title".
DeletesTitle ==
    /\ dbOps' = dbOps + 1
    /\ dbLast'.call.op = "deleteColumn"
    /\ dbLast'.call.columnId = "title"

\* C24: deleteColumn("title") fails in every database state, whatever the
\* columns are, and changes neither the config file nor any row file.
C24_TitleColumnStays ==
    [][DeletesTitle => /\ dbLast'.result.kind = "error"
                       /\ config' = config
                       /\ files' = files]_vars

\* deleteColumn("title") was refused on a database that has a title column
\* and rows.
C24_Witness ==
    /\ dbLast.call.op = "deleteColumn"
    /\ dbLast.call.columnId = "title"
    /\ dbLast.result = Error("InvalidRequest")
    /\ DatabaseExists(config)
    /\ HasColumn(Get(config).columns, "title")
    /\ DOMAIN files # {}

----------------------------------------------------------------------------
(* C25: the views of a database.                                           *)

ViewIdsDistinct(views) ==
    \A i, j \in 1..Len(views) : views[i].id = views[j].id => i = j

DefaultViewExists(cf) == \E i \in 1..Len(cf.views) : cf.views[i].id = cf.defaultView

\* The id createView gives the view: the given one, or the slug of the name.
GivenOrSlug(view) == IF view.id # <<>> THEN view.id ELSE ViewSlug(view.name)

\* The step is a createView call whose id is the id of a stored view.
CreatesStoredView ==
    /\ dbOps' = dbOps + 1
    /\ dbLast'.call.op = "createView"
    /\ DatabaseExists(config)
    /\ \E i \in 1..Len(Get(config).views) :
          Get(config).views[i].id = GivenOrSlug(dbLast'.call.view)

\* C25: no two views of a database share an id and defaultView is the id
\* of a view of the database; createView with the id of a stored view
\* (given, or the slug of the name) fails and leaves the config unchanged.
C25_ViewIdsUnique ==
    /\ [](DatabaseExists(config) =>
            /\ ViewIdsDistinct(Get(config).views)
            /\ DefaultViewExists(Get(config)))
    /\ [][CreatesStoredView => /\ dbLast'.result.kind = "error"
                               /\ config' = config]_vars

\* A createView was refused for its id on a database that holds a created
\* view next to the default one.
C25_Witness ==
    /\ dbLast.call.op = "createView"
    /\ dbLast.result = Error("InvalidRequest")
    /\ DatabaseExists(config)
    /\ Len(Get(config).views) >= 2
    /\ dbLast.call.view.id = <<>>

----------------------------------------------------------------------------
(* The front matter of a row file as text (part_003 808-825).  The two     *)
(* functions wrap the front-matter library imported at line 769: a block   *)
(* of "key: value" lines between two lines "---", then the body.  The      *)
(* attribute maps are maps from keys to values, both plain words.          *)

MatterOpen == <<"-", "-", "-">>
MatterClose == <<"\n", "-", "-", "-">>
KeySeparator == <<":", " ">>

\* The library's serializer on a map with at most one key: the block, then
\* the body, ended with a line feed when it does not end with one.
MatterStringify(content, data) ==
    LET line(key) == key \o KeySeparator \o data[key] \o <<"\n">>
        key == CHOOSE k \in DOMAIN data : TRUE
    IN  MatterOpen \o <<"\n">> \o line(key) \o MatterOpen \o <<"\n">> \o Newline(content)

\* The lines of a block that hold something.
BlockLines(block) == SelectSeq(Split(block, "\n"), LAMBDA l : Trim(l) # <<>>)

\* A line "key: value" of a block; a value that opens a flow sequence and
\* does not close it is a YAML error.
LineKey(l) == Slice(l, 0, IndexOf(l, KeySeparator, 0))
LineValue(l) == SliceFrom(l, IndexOf(l, KeySeparator, 0) + Len(KeySeparator))
LineMalformed(l) ==
    \/ IndexOf(l, KeySeparator, 0) < 1
    \/ Includes(LineValue(l), <<"[">>) /\ ~Includes(LineValue(l), <<"]">>)

\* The library's parser: a text that does not open with "---" has no front
\* matter; the block runs up to the first line "---", the body starts
\* after it and its line end.
MatterParse(text) ==
    IF ~StartsWith(text, MatterOpen) \/ At(text, Len(MatterOpen)) = "-"
    THEN Returned([frontmatter |-> EmptyMap, content |-> text])
    ELSE LET str == SliceFrom(text, Len(MatterOpen))
             found == IndexOf(str, MatterClose, 0)
             closeIndex == IF found = -1 THEN Len(str) ELSE found
             lines == BlockLines(Slice(str, 0, closeIndex))
             after == SliceFrom(str, closeIndex + Len(MatterClose))
             content == IF closeIndex = Len(str) THEN <<>>
                        ELSE IF At(after, 0) = "\n" THEN SliceFrom(after, 1)
                        ELSE after
         IN  IF \E i \in 1..Len(lines) : LineMalformed(lines[i]) THEN Threw
             ELSE Returned(
                    [frontmatter |->
                        [key \in {LineKey(lines[i]) : i \in 1..Len(lines)} |->
                            LineValue(lines[CHOOSE i \in 1..Len(lines) :
                                                LineKey(lines[i]) = key])],
                     content |-> content])

\* Lines 808-815: a parse that throws gives no front matter and the text.
ParseText(content) ==
    LET parsed == MatterParse(content)
    IN  IF parsed.kind = "threw" THEN [frontmatter |-> EmptyMap, content |-> content]
        ELSE parsed.value

\* Lines 820-825
StringifyText(frontmatter, content) ==
    IF DOMAIN frontmatter = {} THEN content
    ELSE MatterStringify(content, frontmatter)

\* Attribute maps of at most one key, and bodies: the texts of at most
\* MaxBody characters and lines, and texts that are row files themselves.
MaxBody == 3
CodecAttributes ==
    {EmptyMap} \cup
    {(key :> value) : key \in {<<"k">>, <<"s", "t">>}, value \in {<<"v">>, <<"T", "o">>}}
PlainBodies ==
    UNION {[1..n -> {"b", "\n"}] : n \in 0..MaxBody}
FileBodies ==
    {MatterStringify(<<"b", "\n">>, (<<"k">> :> <<"v">>)),
     MatterStringify(<<>>, (<<"k">> :> <<"[">>)),
     MatterOpen \o <<"\n">>}
CodecBodies == PlainBodies \cup FileBodies

\* A row file is written from (frontmatter, content) and parsed again: doc
\* is the text of the file.
WriteAndParse ==
    /\ dbOps = 0
    /\ \E frontmatter \in CodecAttributes, content \in CodecBodies :
          LET text == StringifyText(frontmatter, content)
          IN  /\ doc' = text
              /\ dbLast' = [call |-> [op |-> "write", frontmatter |-> frontmatter,
                                      content |-> content],
                            result |-> ParseText(text)]
    /\ dbOps' = dbOps + 1
    /\ UNCHANGED <<tmp, pc, cur, last, config, files, serverVars>>

\* A text is parsed as it was found.
ParseFound ==
    /\ dbOps = 0
    /\ \E text \in CodecBodies :
          /\ doc' = text
          /\ dbLast' = [call |-> [op |-> "parse"], result |-> ParseText(text)]
    /\ dbOps' = dbOps + 1
    /\ UNCHANGED <<tmp, pc, cur, last, config, files, serverVars>>

NextCodec == WriteAndParse \/ ParseFound

SpecCodec == InitDb /\ [][NextCodec]_vars

----------------------------------------------------------------------------
(* C26: the round trip of the front matter.                                *)

\* C26 (as claimed): for every attribute map and every body, parsing the
\* text written from (attrs, body) returns exactly (attrs, body), and the
\* empty map is written as the body unchanged.  A body written without a
\* final line feed under a non-empty map comes back with one, and a body
\* that opens with a front matter block, written under the empty map, comes
\* back as that block's attributes and the text after it.
C26_RoundTrip ==
    dbLast.call.op = "write" =>
        /\ dbLast.result = [frontmatter |-> dbLast.call.frontmatter,
                            content |-> dbLast.call.content]
        /\ DOMAIN dbLast.call.frontmatter = {} => doc = dbLast.call.content

----------------------------------------------------------------------------
(* C27: what a successful replaceContent reports.                          *)

\* The offsets at which replaceAll substitutes: the matches found left to
\* right, each search resuming after the previous match.
RECURSIVE SubstitutedFrom(_, _, _)
SubstitutedFrom(content, searchText, from) ==
    LET at == IndexOf(content, searchText, from)
    IN  IF at = -1 THEN <<>>
        ELSE <<at>> \o SubstitutedFrom(content, searchText, at + Len(searchText))

\* The offsets at which the call substituted.
Substituted(content, call) ==
    IF call.all THEN SubstitutedFrom(content, call.searchText, 0)
    ELSE <<IndexOf(content, call.searchText, 0)>>

\* C27 (as claimed): on a successful replaceContent the reported positions
\* are exactly the occurrences that were substituted, occurrencesReplaced
\* is their number, and documentLengthChange = occurrencesReplaced *
\* (len(replaceText) - len(searchText)), also when the occurrences of
\* searchText overlap and all = true.  Stated for replacement texts without
\* "$", which are substituted as they are.
C27_ReportedOccurrences ==
    (/\ last.call.op = "replace"
     /\ last.result.kind = "ok"
     /\ ~Includes(last.call.replaceText, <<"$">>)) =>
        LET at == Substituted(last.content, last.call)
            reported == last.result.positions
        IN  /\ last.result.occurrencesReplaced = Len(at)
            /\ Len(reported) = Len(at)
            /\ \A k \in 1..Len(at) : reported[k].startPos = at[k]
            /\ last.result.documentLengthChange =
                  last.result.occurrencesReplaced
                      * (Len(last.call.replaceText) - Len(last.call.searchText))

----------------------------------------------------------------------------
(* C28: retrying with the diagnostics of a failed optimistic check.        *)

\* The retries of a failed insertContent: the same call at the
\* afterPosition of a suggested position.
InsertRetries(call, result) ==
    IF IsSome(result.suggestedPositions)
    THEN {[call EXCEPT !.position = [t |-> "num", n |-> s.afterPosition]] :
            s \in {Get(result.suggestedPositions)[k] :
                      k \in 1..Len(Get(result.suggestedPositions))}}
    ELSE {}

\* The retries of a failed deleteContent: the same call on the range of a
\* suggested position.
DeleteRetries(call, result) ==
    IF IsSome(result.suggestedPositions)
    THEN {[call EXCEPT !.startPos = s.startPos, !.endPos = s.endPos] :
            s \in {Get(result.suggestedPositions)[k] :
                      k \in 1..Len(Get(result.suggestedPositions))}}
    ELSE {}

\* C28 (as claimed): after a failed optimistic check, on the unchanged
\* document, insertContent re-issued at a suggested afterPosition with the
\* same expectedLineBefore succeeds, and deleteContent re-issued on a
\* suggested startPos/endPos with the same non-empty expectedContent
\* succeeds.
C28_SuggestionsRetry ==
    (last.result.kind = "fail" /\ doc = last.content) =>
        /\ last.call.op = "insert" =>
              \A retry \in InsertRetries(last.call, last.result) :
                  Handler(retry, doc).kind = "ok"
        /\ (last.call.op = "delete" /\ Get(last.call.expectedContent) # <<>>) =>
              \A retry \in DeleteRetries(last.call, last.result) :
                  Handler(retry, doc).kind = "ok"

----------------------------------------------------------------------------
(* C29: what updateRows and deleteRows leave alone.                        *)

\* The files of the rows that the call of the step selects: the row read
\* from the k-th file of the directory listing is selected.
SelectedFiles ==
    LET order == dbLast'.call.order
        rows == getDatabaseRows(files, order)
    IN  {order[k] : k \in {i \in 1..Len(rows) :
                             SelectedRows(<<rows[i]>>, dbLast'.call.options) # <<>>}}

\* The step is an updateRows or deleteRows call that selects rows.
SelectsRows ==
    /\ dbOps' = dbOps + 1
    /\ dbLast'.call.op \in {"updateRows", "deleteRows"}
    /\ DatabaseExists(config)
    /\ HasCriteria(dbLast'.call.options)

\* C29 (as claimed): updateRows and deleteRows touch only the files of the
\* rows they select: every other row keeps its file, front matter and body,
\* the config is unchanged, and updateRows leaves the number of rows as it
\* was, also when it sets a title and selects one or several rows.
C29_OnlySelectedRows ==
    [][SelectsRows =>
        /\ config' = config
        /\ \A name \in DOMAIN files \ SelectedFiles :
              name \in DOMAIN files' /\ files'[name] = files[name]
        /\ dbLast'.call.op = "updateRows" =>
              Cardinality(DOMAIN files') = Cardinality(DOMAIN files)]_vars

----------------------------------------------------------------------------
(* C30: a view of one filter against the same filter passed explicitly.    *)

RowSet(rows) == {rows[i] : i \in 1..Len(rows)}

\* The view the last readDatabase call names, None when there is none.
ViewRead ==
    IF dbLast.call.op = "readDatabase" /\ dbLast.result.kind = "ok"
          /\ dbLast.call.options.viewId # <<>>
    THEN FindView(Get(config).views, dbLast.call.options.viewId)
    ELSE None

\* C30 (as claimed): for a view that stores exactly one filter, with any of
\* the eight operators and any row values, booleans included, readDatabase
\* with that viewId and no explicit filters returns the same set of rows as
\* readDatabase with that filter passed in filters.
C30_ViewAsExplicitFilter ==
    (/\ IsSome(ViewRead)
     /\ Len(Get(ViewRead).filters) = 1
     /\ ~IsSome(dbLast.call.options.filters)) =>
        RowSet(dbLast.result.rows) =
            RowSet(readDatabase(config, files, dbLast.call.order,
                                [NoOptions EXCEPT !.filters = Some(Get(ViewRead).filters)]
                               ).result.rows)

====
